---- MODULE Spec2Model ----
(***************************************************************************)
(* Verification model of the chat backend: the message-processing use case *)
(* (app/application/use_cases/process_message.py) over a conversation      *)
(* repository, the mock LLM provider, the request DTO validation and the   *)
(* two chat routes (POST /chat/message, POST /chat/message/stream).        *)
(*                                                                         *)
(* Text is modelled as a sequence of one-character strings, so that        *)
(* concatenation, slicing, stripping and substring search are computed.    *)
(* Wall-clock timestamps (created_at / updated_at) are not part of the     *)
(* state: no code path reads them.                                         *)
(***************************************************************************)
EXTENDS Integers, Sequences, FiniteSets, TLC

(***************************************************************************)
(* Bounds of the model.                                                    *)
(***************************************************************************)
\* number of execute() calls made over a behaviour
MaxCalls == 3
\* longest message handed to the mock provider on its own
MaxLen == 4
\* number of HTTP requests answered over a behaviour
MaxRequests == 2
\* longest chunk sequence an external provider's stream yields
MaxChunks == 2

(***************************************************************************)
(* Values.                                                                 *)
(***************************************************************************)
\* Python's None
None == "None"
\* the empty str, falsy like None in "if conversation_id:"
EmptyStr == ""

\* message_content values used by direct callers of the use case
Contents == { <<"h", "i">>, <<"y", "o", "!">> }

Users == { "user1" }

\* texts an external (non-mock) provider may return from generate()
Outputs == { <<"o", "k">> }

\* provider classes a use case may hold; any class but MockProvider is external
LLMKinds == { "MockProvider", "OpenAIProvider" }

\* Python slice s[i:j] on 0-based indices, clipped to the text as Python does
Slice(s, i, j) == SubSeq(s, i + 1, IF j <= Len(s) THEN j ELSE Len(s))

RECURSIVE Concat(_)
Concat(ss) == IF ss = <<>> THEN <<>> ELSE Head(ss) \o Concat(Tail(ss))

(***************************************************************************)
(* Domain: Message value object and Conversation entity.                   *)
(***************************************************************************)
MessageOfUser(content, role) == [content |-> content, role |-> "user"]
Message(content, role) == [content |-> content, role |-> role]

\* Conversation(user_id=...): id None, empty message list
Conversation(user_id) == [id |-> None, user_id |-> user_id, messages |-> <<>>]

add_message_in_front(conversation, message) ==
    [conversation EXCEPT !.messages = <<message>> \o @]
add_message(conversation, message) ==
    [conversation EXCEPT !.messages = Append(@, message)]

\* <<m>> for the last message m, <<>> for None
get_last_message(conversation) ==
    IF conversation.messages # <<>>
    THEN <<conversation.messages[Len(conversation.messages)]>>
    ELSE <<>>

(***************************************************************************)
(* Mock provider.                                                          *)
(***************************************************************************)
EchoPrefix == <<"E", "c", "h", "o", ":", " ">>

MockGenerateNoSpace(message) == <<"E", "c", "h", "o", ":">> \o message
\* MockProvider.generate: f"Echo: {message}"
MockGenerate(message) == EchoPrefix \o message

(***************************************************************************)
(* State.                                                                  *)
(***************************************************************************)
VARIABLES
    llm,        \* ProcessMessageUseCase.llm: the provider the use case holds
    store,      \* the repository's conversations, keyed by assigned id
    nextId,     \* how many ids the repository has generated
    run,        \* the execute() coroutines: position, locals and call trace
    calls,      \* execute() calls made so far
    llm_provider,   \* settings.llm_provider, lower-cased
    requests,       \* HTTP requests answered so far
    response,       \* the request answered last, with its response
    stream,         \* the open /chat/message/stream response, if any
    probe,          \* a message and the results of successive generate() calls on it
    health,         \* the readiness check in progress: position and what it met
    app,            \* the process: its settings and how far startup has come
    services,       \* the ChatService objects get_chat_service has constructed
    magic,          \* the POST /auth/magic-link request answered last
    generation      \* a provider's generate or generate_stream call in progress

execVars == <<llm, store, nextId, run, calls>>
apiVars == <<llm_provider, requests, response, stream>>
vars ==
    <<llm, store, nextId, run, calls, llm_provider, requests, response, stream, probe,
      health, app, services, magic, generation>>

\* the r-th call of execute() is run r; runs are kept after they end
Runs == 1..MaxCalls

(***************************************************************************)
(* Exceptions: a type name and the message str(e) as a tuple of parts.     *)
(***************************************************************************)
Exc(type, message) == [type |-> type, message |-> message]

\* "not found" in str(e).lower()
IsNotFound(e) == \E i \in 1..Len(e.message) : e.message[i] = " not found"

(***************************************************************************)
(* Repository: find_by_id / save over an in-memory mapping.  Values are    *)
(* copied in and out: the stored conversation changes only through save.   *)
(***************************************************************************)
IdNames == <<"c1", "c2", "c3", "c4", "c5", "c6">>
\* an id no repository has assigned
UnknownId == "c0"

\* the result is <<c>> for a stored conversation c and <<>> for Python's None
find_by_id(conversations, conversation_id) ==
    IF conversation_id \in DOMAIN conversations
    THEN <<conversations[conversation_id]>>
    ELSE <<>>

saved_under_new_id(conversation, generated) ==
    [conversation EXCEPT !.id = IdNames[generated + 1]]
\* the conversation as save() returns it: id generated on first save, kept after
saved(conversation, generated) ==
    IF conversation.id = None
    THEN [conversation EXCEPT !.id = IdNames[generated + 1]]
    ELSE conversation

save_merging(conversations, conversation, generated) ==
    LET c == saved(conversation, generated)
        n == Len(c.messages)
    IN  [k \in DOMAIN conversations \cup {c.id} |->
            IF k # c.id THEN conversations[k]
            ELSE IF k \in DOMAIN conversations
                 THEN [c EXCEPT !.messages =
                          conversations[k].messages \o SubSeq(c.messages, n - 1, n)]
                 ELSE c]
\* the mapping after save(conversation)
save(conversations, conversation, generated) ==
    LET c == saved(conversation, generated)
    IN  [k \in DOMAIN conversations \cup {c.id} |->
            IF k = c.id THEN c ELSE conversations[k]]

\* the exception a failing save raises
SaveError == Exc("RepositoryError", <<"Failed to save conversation">>)

(***************************************************************************)
(* Providers as the use case sees them: generate(message) returns a text   *)
(* or raises.                                                              *)
(***************************************************************************)
ProviderError == Exc("RuntimeError", <<"provider error">>)

GenerateOutcomes(kind, message) ==
    IF kind = "MockProvider"
    THEN { [ok |-> TRUE, text |-> MockGenerate(message)] }
    ELSE { [ok |-> TRUE, text |-> t] : t \in Outputs }
         \cup { [ok |-> FALSE, exc |-> ProviderError] }

(***************************************************************************)
(* ProcessMessageUseCase.execute, cut at its awaits.                       *)
(***************************************************************************)
IdleRun ==
    [pc |-> "idle", user_id |-> None, message_content |-> None,
     conversation_id |-> None, conversation |-> None,
     response_content |-> None, result |-> None, error |-> None,
     \* call trace of this run
     loaded |-> <<>>, generate_args |-> <<>>, find_calls |-> 0, save_calls |-> 0]

\* "if conversation_id:" is false for None and for the empty str
Given(conversation_id) == conversation_id # None /\ conversation_id # EmptyStr

NotFoundError(conversation_id) ==
    Exc("RepositoryError", <<"Conversation ", conversation_id, " not found">>)

LoadOrCreateLenient(conversations, user_id, conversation_id) ==
    IF Given(conversation_id) /\ find_by_id(conversations, conversation_id) # <<>>
    THEN [ok |-> TRUE, conversation |-> find_by_id(conversations, conversation_id)[1]]
    ELSE [ok |-> TRUE, conversation |-> Conversation(user_id)]
\* lines 60-66: load the conversation, or create one
LoadOrCreate(conversations, user_id, conversation_id) ==
    IF Given(conversation_id)
    THEN IF find_by_id(conversations, conversation_id) = <<>>
         THEN [ok |-> FALSE, exc |-> NotFoundError(conversation_id)]
         ELSE [ok |-> TRUE, conversation |-> find_by_id(conversations, conversation_id)[1]]
    ELSE [ok |-> TRUE, conversation |-> Conversation(user_id)]

\* lines 68-70
AddUserMessage(conversation, message_content) ==
    add_message(conversation, Message(message_content, "user"))

AddAssistantMessageFirst(conversation, response_content) ==
    [conversation EXCEPT !.messages =
        SubSeq(@, 1, Len(@) - 1)
        \o <<Message(response_content, "assistant"), @[Len(@)]>>]
GenerateArgumentWithHistory(conversation, message_content) ==
    Concat([k \in 1..Len(conversation.messages) |-> conversation.messages[k].content])
\* line 74: what llm.generate is called with, the conversation at hand
GenerateArgument(conversation, message_content) == message_content

\* lines 78-80
AddAssistantMessage(conversation, response_content) ==
    add_message(conversation, Message(response_content, "assistant"))

LLMFailureUnwrapped(e) == e
\* lines 75-76: except Exception as e: raise LLMError(...) from e
LLMFailure(e) ==
    Exc("LLMError", <<"Failed to generate LLM response: ">> \o e.message)

SaveFailureAsLLMError(e) ==
    Exc("LLMError", <<"Failed to generate LLM response: ">> \o e.message)
\* line 83: the await is outside any try, the exception passes through
SaveFailure(e) == e

ExecuteResultUnsavedId(conversation, saved_conversation, message_content, response_content) ==
    [conversation_id |-> conversation.id, response |-> response_content,
     user_message |-> message_content, assistant_message |-> response_content]
ExecuteResultSwapped(conversation, saved_conversation, message_content, response_content) ==
    [conversation_id |-> saved_conversation.id, response |-> response_content,
     user_message |-> response_content, assistant_message |-> message_content]
\* lines 85-90
ExecuteResult(conversation, saved_conversation, message_content, response_content) ==
    [conversation_id |-> saved_conversation.id, response |-> response_content,
     user_message |-> message_content, assistant_message |-> response_content]

\* execute(user_id, message_content, conversation_id) up to "await llm.generate"
ExecuteLoad(r, user_id, message_content, conversation_id) ==
    /\ calls < MaxCalls
    /\ r = calls + 1
    /\ calls' = calls + 1
    /\ LET got == LoadOrCreate(store, user_id, conversation_id)
           base == [IdleRun EXCEPT
                       !.user_id = user_id,
                       !.message_content = message_content,
                       !.conversation_id = conversation_id,
                       !.find_calls = IF Given(conversation_id) THEN 1 ELSE 0,
                       !.loaded = IF Given(conversation_id)
                                  THEN find_by_id(store, conversation_id)
                                  ELSE <<>>]
       IN  run' = [run EXCEPT ![r] =
               IF got.ok
               THEN [base EXCEPT
                        !.pc = "generate",
                        !.conversation =
                            AddUserMessage(got.conversation, message_content)]
               ELSE [base EXCEPT !.pc = "failed", !.error = got.exc]]
    /\ UNCHANGED <<llm, store, nextId>>
    /\ UNCHANGED <<apiVars, probe, health, app, services, magic, generation>>

ExecuteGenerateRetrying(r) ==
    /\ run[r].pc = "generate"
    /\ LET arg == GenerateArgument(run[r].conversation, run[r].message_content)
       IN  \E out \in GenerateOutcomes(llm, arg) :
              run' = [run EXCEPT ![r] =
                  IF out.ok
                  THEN [@ EXCEPT
                           !.pc = "save",
                           !.generate_args = Append(@, arg),
                           !.response_content = out.text,
                           !.conversation = AddAssistantMessage(@, out.text)]
                  ELSE IF run[r].generate_args = <<>>
                  THEN [@ EXCEPT !.generate_args = Append(@, arg)]
                  ELSE [@ EXCEPT
                           !.pc = "failed",
                           !.generate_args = Append(@, arg),
                           !.error = LLMFailure(out.exc)]]
    /\ UNCHANGED <<llm, store, nextId, calls>>
    /\ UNCHANGED <<apiVars, probe, health, app, services, magic, generation>>
\* "await llm.generate(message_content)" completes, lines 72-80
ExecuteGenerate(r) ==
    /\ run[r].pc = "generate"
    /\ LET arg == GenerateArgument(run[r].conversation, run[r].message_content)
       IN  \E out \in GenerateOutcomes(llm, arg) :
              run' = [run EXCEPT ![r] =
                  IF out.ok
                  THEN [@ EXCEPT
                           !.pc = "save",
                           !.generate_args = Append(@, arg),
                           !.response_content = out.text,
                           !.conversation = AddAssistantMessage(@, out.text)]
                  ELSE [@ EXCEPT
                           !.pc = "failed",
                           !.generate_args = Append(@, arg),
                           !.error = LLMFailure(out.exc)]]
    /\ UNCHANGED <<llm, store, nextId, calls>>
    /\ UNCHANGED <<apiVars, probe, health, app, services, magic, generation>>

\* "await repository.save(conversation)" completes, lines 82-90
ExecuteSave(r) ==
    /\ run[r].pc = "save"
    /\ \/ /\ store' = save(store, run[r].conversation, nextId)
          /\ nextId' = IF run[r].conversation.id = None THEN nextId + 1 ELSE nextId
          /\ run' = [run EXCEPT ![r] =
                [@ EXCEPT
                    !.pc = "done",
                    !.save_calls = @ + 1,
                    !.result = ExecuteResult(run[r].conversation,
                                             saved(run[r].conversation, nextId),
                                             run[r].message_content,
                                             run[r].response_content)]]
       \/ /\ run' = [run EXCEPT ![r] =
                [@ EXCEPT
                    !.pc = "failed",
                    !.save_calls = @ + 1,
                    !.error = SaveFailure(SaveError)]]
          /\ UNCHANGED <<store, nextId>>
    /\ UNCHANGED <<llm, calls>>
    /\ UNCHANGED <<apiVars, probe, health, app, services, magic, generation>>

\* conversation ids a caller may pass
CallerIds == {None, EmptyStr, UnknownId} \cup DOMAIN store

\* no request has been made of the HTTP layer
ApiIdle ==
    /\ llm_provider = "mock"
    /\ requests = 0
    /\ response = [route |-> None]
    /\ stream = [pc |-> "idle"]

ProbeIdle == probe = [message |-> <<>>, results |-> <<>>]

\* no readiness check has been asked for
HealthIdle == health = [pc |-> "idle"]

\* startup is behind: the process serves
AppIdle == app = [pc |-> "serving"]

\* no request has had its dependencies resolved
NoService == services = <<>>

\* request_magic_link has not been called
MagicIdle == magic = [pc |-> "idle"]

\* no provider call is being followed
GenerationIdle == generation = [pc |-> "idle"]

Init ==
    /\ llm \in LLMKinds
    /\ store = << >>
    /\ nextId = 0
    /\ run = [r \in Runs |-> IdleRun]
    /\ calls = 0
    /\ ApiIdle
    /\ ProbeIdle
    /\ HealthIdle
    /\ NoService
    /\ MagicIdle
    /\ GenerationIdle
    /\ AppIdle

Next ==
    \/ \E r \in Runs, u \in Users, m \in Contents, c \in CallerIds :
          ExecuteLoad(r, u, m, c)
    \/ \E r \in Runs : ExecuteGenerate(r)
    \/ \E r \in Runs : ExecuteSave(r)

Spec == Init /\ [][Next]_vars

(***************************************************************************)
(* Text helpers: str.strip(), str.lower(), "pattern in text".              *)
(***************************************************************************)
Whitespace == { " ", "\t", "\n", "\r" }

\* without its leading whitespace
LStrip(s) ==
    IF \A i \in 1..Len(s) : s[i] \in Whitespace
    THEN <<>>
    ELSE LET first == CHOOSE i \in 1..Len(s) :
                          /\ s[i] \notin Whitespace
                          /\ \A j \in 1..(i - 1) : s[j] \in Whitespace
         IN  SubSeq(s, first, Len(s))

\* without its trailing whitespace
RStrip(s) ==
    IF \A i \in 1..Len(s) : s[i] \in Whitespace
    THEN <<>>
    ELSE LET last == CHOOSE i \in 1..Len(s) :
                         /\ s[i] \notin Whitespace
                         /\ \A j \in (i + 1)..Len(s) : s[j] \in Whitespace
         IN  SubSeq(s, 1, last)

Strip(s) == RStrip(LStrip(s))

UpperCase ==
    <<"A", "B", "C", "D", "E", "F", "G", "H", "I", "J", "K", "L", "M",
      "N", "O", "P", "Q", "R", "S", "T", "U", "V", "W", "X", "Y", "Z">>
LowerCase ==
    <<"a", "b", "c", "d", "e", "f", "g", "h", "i", "j", "k", "l", "m",
      "n", "o", "p", "q", "r", "s", "t", "u", "v", "w", "x", "y", "z">>

LowerChar(c) ==
    IF \E k \in 1..Len(UpperCase) : UpperCase[k] = c
    THEN LowerCase[CHOOSE k \in 1..Len(UpperCase) : UpperCase[k] = c]
    ELSE c

LowerUnchanged(s) == s
\* str.lower()
Lower(s) == [i \in 1..Len(s) |-> LowerChar(s[i])]

\* "pattern in text"
Contains(text, pattern) ==
    \E i \in 0..(Len(text) - Len(pattern)) :
        \A j \in 1..Len(pattern) : text[i + j] = pattern[j]

(***************************************************************************)
(* MessageRequestDTO: field constraints, then the message validator.       *)
(***************************************************************************)
message_min_length == 1
message_max_length_plus_one == 4000 + 1
message_max_length == 4000
conversation_id_max_length == 100
model_id_max_length == 200

suspicious_patterns ==
    << <<"<", "s", "c", "r", "i", "p", "t">>,
       <<"j", "a", "v", "a", "s", "c", "r", "i", "p", "t", ":">>,
       <<"o", "n", "e", "r", "r", "o", "r", "=">>,
       <<"o", "n", "c", "l", "i", "c", "k", "=">>,
       <<"o", "n", "l", "o", "a", "d", "=">>,
       <<"o", "n", "m", "o", "u", "s", "e", "o", "v", "e", "r", "=">>,
       <<"v", "b", "s", "c", "r", "i", "p", "t", ":">>,
       <<"d", "a", "t", "a", ":", "t", "e", "x", "t", "/", "h", "t", "m", "l">> >>

ValidationError(loc, msg) == [ok |-> FALSE, loc |-> loc, msg |-> msg]

validate_message_content_keep_blank(v) ==
    LET stripped == Strip(v)
    IN  IF \E k \in 1..Len(suspicious_patterns) :
               Contains(Lower(stripped), suspicious_patterns[k])
        THEN ValidationError("message", "Message contains potentially malicious content")
        ELSE [ok |-> TRUE, value |-> stripped]
\* lines 42-87: strip, reject blank, reject suspicious patterns, return stripped
validate_message_content(v) ==
    LET stripped == Strip(v)
    IN  IF stripped = <<>>
        THEN ValidationError("message", "Message cannot be empty or only whitespace")
        ELSE IF \E k \in 1..Len(suspicious_patterns) :
                    Contains(Lower(stripped), suspicious_patterns[k])
             THEN ValidationError("message",
                                  "Message contains potentially malicious content")
             ELSE [ok |-> TRUE, value |-> stripped]

\* Optional[str] with min_length=1 and a max_length; ids are atoms of length >= 1
OptionalStrOk(v, max) == v = None \/ (v # EmptyStr /\ 1 <= max)

\* the fields a validated MessageRequestDTO instance has
MessageRequestDTO(message, conversation_id, model_id) ==
    [message |-> message, conversation_id |-> conversation_id, model_id |-> model_id]

\* lines 14-87: parse a request body into a MessageRequestDTO or fail (HTTP 422)
ValidateMessageRequest(body) ==
    IF Len(body.message) < message_min_length
    THEN ValidationError("message", "String should have at least 1 character")
    ELSE IF Len(body.message) > message_max_length
    THEN ValidationError("message", "String should have at most 4000 characters")
    ELSE IF ~OptionalStrOk(body.conversation_id, conversation_id_max_length)
    THEN ValidationError("conversation_id", "String should have at least 1 character")
    ELSE IF ~OptionalStrOk(body.model_id, model_id_max_length)
    THEN ValidationError("model_id", "String should have at least 1 character")
    ELSE LET v == validate_message_content(body.message)
         IN  IF v.ok
             THEN [ok |-> TRUE,
                   payload |-> MessageRequestDTO(v.value, body.conversation_id,
                                                 body.model_id)]
             ELSE v

(***************************************************************************)
(* POST {prefix}/chat/message: get_chat_service and send_message.          *)
(***************************************************************************)
\* dependencies.get_llm_provider: the provider class for settings.llm_provider
get_llm_provider(provider_name) ==
    IF provider_name = "openai" THEN "OpenAIProvider"
    ELSE IF provider_name = "bedrock" THEN "BedrockProvider"
    ELSE "MockProvider"

\* dependencies.get_repository: a new, empty repository
get_repository == [conversations |-> << >>, generated |-> 0]

\* InMemoryRepository(): a new object; an object's identity is its place in
\* the order of construction
InMemoryRepository(constructed) == [id |-> constructed + 1] @@ get_repository

\* ChatService.__init__: the use case holds the provider and the repository
ChatService(provider, repository) ==
    [process_message_use_case |-> [llm |-> provider, repository |-> repository]]

get_chat_service_shared(constructed) ==
    ChatService(get_llm_provider(llm_provider), InMemoryRepository(0))
\* dependencies.get_chat_service: both collaborators are constructed by the call
get_chat_service(constructed) ==
    ChatService(get_llm_provider(llm_provider), InMemoryRepository(constructed))

\* execute() run to its end on one repository, given how the provider call and
\* the save turn out: the same steps as ExecuteLoad, ExecuteGenerate, ExecuteSave
execute(repository, user_id, message_content, conversation_id, out, save_ok) ==
    LET got == LoadOrCreate(repository.conversations, user_id, conversation_id)
    IN  IF ~got.ok
        THEN [ok |-> FALSE, exc |-> got.exc, llm_calls |-> 0]
        ELSE IF ~out.ok
        THEN [ok |-> FALSE, exc |-> LLMFailure(out.exc), llm_calls |-> 1]
        ELSE IF ~save_ok
        THEN [ok |-> FALSE, exc |-> SaveFailure(SaveError), llm_calls |-> 1]
        ELSE LET conversation ==
                     AddAssistantMessage(
                         AddUserMessage(got.conversation, message_content), out.text)
             IN  [ok |-> TRUE,
                  result |-> ExecuteResult(conversation,
                                           saved(conversation, repository.generated),
                                           message_content, out.text),
                  llm_calls |-> 1]

\* attribute access on a pydantic model instance: only declared fields exist
GetAttr(payload, name) ==
    IF name \in DOMAIN payload
    THEN [ok |-> TRUE, value |-> payload[name]]
    ELSE [ok |-> FALSE,
          exc |-> Exc("AttributeError",
                      <<"'MessageRequestDTO' object has no attribute '", name, "'">>)]

HTTPException(status_code, detail) ==
    [status_code |-> status_code, content |-> [detail |-> detail]]

\* chat_routes.py lines 43-57: the except clauses in order
HandleException(e) ==
    IF e.type = "LLMError"
    THEN HTTPException(503, <<"LLM service error: ">> \o e.message)
    ELSE IF e.type = "RepositoryError"
    THEN HTTPException(500, <<"Repository error: ">> \o e.message)
    ELSE HTTPException(500, <<"Unexpected error: ">> \o e.message)

\* chat_routes.py lines 30-57.  The arguments of service.handle are evaluated
\* first, payload.user_id among them, inside the try block.
send_message(payload, out, save_ok) ==
    LET user_id == GetAttr(payload, "user_id")
    IN  IF ~user_id.ok
        THEN HandleException(user_id.exc) @@ [llm_calls |-> 0]
        ELSE LET handled ==
                     execute(get_repository,
                             IF user_id.value \in {None, EmptyStr}
                             THEN "default_user" ELSE user_id.value,
                             payload.message, payload.conversation_id, out, save_ok)
             IN  IF handled.ok
                 THEN [status_code |-> 200, content |-> handled.result,
                       llm_calls |-> handled.llm_calls]
                 ELSE HandleException(handled.exc) @@ [llm_calls |-> handled.llm_calls]

\* the framework's answer to a request body that fails validation
UnprocessableEntity(v) ==
    [status_code |-> 422, content |-> [detail |-> <<v.loc, v.msg>>], llm_calls |-> 0]

HelloAI == <<"H", "e", "l", "l", "o", ",", " ", "A", "I", "!">>

\* one text per forbidden pattern, each in a letter case other than the list's
SuspiciousMessages ==
    { <<"<", "S", "C", "R", "I", "P", "T">>,
      <<"J", "a", "v", "a", "S", "c", "r", "i", "p", "t", ":", "x">>,
      <<"a", " ", "O", "n", "E", "r", "r", "o", "r", "=", "1">>,
      <<"O", "N", "C", "L", "I", "C", "K", "=">>,
      <<"o", "n", "L", "o", "a", "d", "=">>,
      <<"O", "n", "M", "o", "u", "s", "e", "O", "v", "e", "r", "=">>,
      <<"V", "B", "S", "c", "r", "i", "p", "t", ":">>,
      <<"D", "a", "t", "a", ":", "T", "e", "x", "t", "/", "H", "T", "M", "L">> }

\* texts that resemble a forbidden pattern and contain none
NearMisses ==
    { <<"s", "c", "r", "i", "p", "t">>,
      <<"o", "n", "l", "o", "a", "d", " ", "=">>,
      <<"J", "a", "v", "a", "S", "c", "r", "i", "p", "t">> }

\* a text of n characters that starts with "hi" and goes on with the filler
Padded(n, filler) == <<"h", "i">> \o [i \in 1..(n - 2) |-> filler]

\* texts at and one past the longest message the DTO allows: padded with
\* blanks that strip() would remove, or all letters
LongMessages ==
    { Padded(message_max_length, " "),
      Padded(message_max_length + 1, " "),
      Padded(message_max_length + 1, "A") }

\* request messages: the documented example, blank texts, texts that strip,
\* texts with a forbidden pattern, a text whose echo fills whole chunks
RequestMessages ==
    { HelloAI,
      <<>>,
      <<" ">>,
      <<" ", "\t", "\n">>,
      <<"h", "i">>,
      <<" ", "h", "i", " ">>,
      <<"a", "b", "c", "d">>,
      <<"<", "S", "c", "r", "i", "p", "t", ">">> }
    \cup SuspiciousMessages \cup NearMisses

\* bodies: every message starting a conversation; two of them also with a
\* conversation_id, either unknown to the repository or too short for the DTO
RequestBodies ==
    [message : RequestMessages, conversation_id : {None}, model_id : {None}]
    \cup [message : {HelloAI, <<"h", "i">>},
          conversation_id : {EmptyStr, UnknownId},
          model_id : {None}]

\* bodies around the limits of the message length: none, few, the most
\* allowed, and too many characters
LimitBodies ==
    [message : {<<>>, <<"h", "i">>} \cup LongMessages,
     conversation_id : {None}, model_id : {None}]

\* validation is a function of the request body alone: each body with its
\* outcome, and the outcome looked up
ValidatedBodies ==
    { [body |-> body, outcome |-> ValidateMessageRequest(body)] :
          body \in RequestBodies \cup LimitBodies }

Validated(body) == (CHOOSE r \in ValidatedBodies : r.body = body).outcome

\* POST /chat/message
PostMessage(body) ==
    /\ requests < MaxRequests
    /\ requests' = requests + 1
    /\ LET v == Validated(body)
           provider == get_llm_provider(llm_provider)
       IN  IF ~v.ok
           THEN response' =
                    [route |-> "/chat/message", body |-> body] @@ UnprocessableEntity(v)
           ELSE \E out \in GenerateOutcomes(provider, v.payload.message),
                   save_ok \in BOOLEAN :
                    response' = [route |-> "/chat/message", body |-> body,
                                 \* what the provider and the repository
                                 \* would do for this request
                                 generate_ok |-> out.ok, save_ok |-> save_ok]
                                    @@ send_message(v.payload, out, save_ok)
    \* Depends(get_chat_service): resolved for this request
    /\ services' = Append(services, get_chat_service(Len(services)))
    /\ UNCHANGED <<llm_provider, stream>>
    /\ UNCHANGED <<execVars, probe, health, app, magic, generation>>

(***************************************************************************)
(* POST {prefix}/chat/message/stream: stream_message, the adapter          *)
(* _stream_llm_response and the providers' generate_stream.                *)
(***************************************************************************)
chunk_size == 5

\* texts an external provider's stream may yield as one chunk
StreamTexts == { <<"o">>, <<"k", "!">> }

\* the provider the container hands to the streaming route
container_get_llm == get_llm_provider(llm_provider)

\* json.dumps of a one-key object
JsonObject(key, value) == [k \in {key} |-> value]

\* f"data: {data}\n\n"
SSE(data) == <<"data: ", data, "\n\n">>

\* lines 29-30
ChunkFrame(chunk) == SSE(JsonObject("chunk", chunk))
\* line 33
DoneFrame == SSE(JsonObject("done", TRUE))
\* lines 36-37
ErrorFrame(e) == SSE(JsonObject("error", e.message))

OnExceptionThenDone(frames, e) == frames \o <<ErrorFrame(e), DoneFrame>>
\* lines 34-37: the except clause yields the error frame and the adapter ends
OnException(frames, e) == Append(frames, ErrorFrame(e))

MockChunkShort(text, i) == Slice(text, i, i + chunk_size - 1)
\* mock_provider.py line 42: response[i:i + chunk_size]
MockChunk(text, i) == Slice(text, i, i + chunk_size)

\* what the provider's async generator does when asked for its next chunk
ProviderNext(st) ==
    IF st.provider = "MockProvider"
    THEN LET text == MockGenerate(st.message)
         IN  IF st.i < Len(text)
             THEN { [kind |-> "chunk", text |-> MockChunk(text, st.i)] }
             ELSE { [kind |-> "stop"] }
    ELSE (IF Len(st.yielded) < MaxChunks
          THEN { [kind |-> "chunk", text |-> t] : t \in StreamTexts }
          ELSE {})
         \cup { [kind |-> "stop"], [kind |-> "raise", exc |-> ProviderError] }

\* _stream_llm_response(llm, message) as created: no code of it has run yet
StreamLLMResponse(provider, message) ==
    [pc |-> "open", provider |-> provider, message |-> message,
     i |-> 0, yielded |-> <<>>, frames |-> <<>>, ending |-> "none",
     \* calls of llm.generate_stream made by this adapter
     generate_stream_calls |-> 0]

\* POST /chat/message/stream; one streaming response is followed at a time
StreamMessage(body) ==
    /\ requests < MaxRequests
    /\ requests' = requests + 1
    /\ stream.pc \in {"idle", "closed"}
    /\ LET v == Validated(body)
       IN  IF ~v.ok
           THEN /\ response' = [route |-> "/chat/message/stream", body |-> body]
                                   @@ UnprocessableEntity(v)
                /\ UNCHANGED stream
           ELSE /\ response' =
                     [route |-> "/chat/message/stream", body |-> body,
                      status_code |-> 200,
                      content |-> [media_type |-> "text/event-stream"],
                      llm_calls |-> 0]
                /\ stream' = StreamLLMResponse(container_get_llm, v.payload.message)
    /\ UNCHANGED llm_provider
    /\ UNCHANGED <<execVars, probe, health, app, services, magic, generation>>

\* the consumer asks the adapter for a frame and the provider yields a chunk
StreamChunk ==
    /\ stream.pc = "open"
    /\ \E o \in ProviderNext(stream) :
          /\ o.kind = "chunk"
          /\ stream' = [stream EXCEPT
                           !.generate_stream_calls = 1,
                           !.i = @ + chunk_size,
                           !.yielded = Append(@, o.text),
                           !.frames = Append(@, ChunkFrame(o.text))]
    /\ UNCHANGED <<llm_provider, requests, response>>
    /\ UNCHANGED <<execVars, probe, health, app, services, magic, generation>>

\* the provider's stream is exhausted: the completion frame
StreamDone ==
    /\ stream.pc = "open"
    /\ [kind |-> "stop"] \in ProviderNext(stream)
    /\ stream' = [stream EXCEPT
                     !.pc = "terminal",
                     !.generate_stream_calls = 1,
                     !.ending = "normal",
                     !.frames = Append(@, DoneFrame)]
    /\ UNCHANGED <<llm_provider, requests, response>>
    /\ UNCHANGED <<execVars, probe, health, app, services, magic, generation>>

\* the provider's stream raises: the error frame
StreamError ==
    /\ stream.pc = "open"
    /\ \E o \in ProviderNext(stream) :
          /\ o.kind = "raise"
          /\ stream' = [stream EXCEPT
                           !.pc = "terminal",
                           !.generate_stream_calls = 1,
                           !.ending = "raised",
                           !.frames = OnException(@, o.exc)]
    /\ UNCHANGED <<llm_provider, requests, response>>
    /\ UNCHANGED <<execVars, probe, health, app, services, magic, generation>>

\* asked again after its terminal frame, the adapter returns
StreamClose ==
    /\ stream.pc = "terminal"
    /\ stream' = [stream EXCEPT !.pc = "closed"]
    /\ UNCHANGED <<llm_provider, requests, response>>
    /\ UNCHANGED <<execVars, probe, health, app, services, magic, generation>>

\* the HTTP layer after startup: no run of the use case is driven directly
InitApi ==
    /\ llm_provider \in {"mock", "openai", "bedrock"}
    /\ requests = 0
    /\ response = [route |-> None]
    /\ stream = [pc |-> "idle"]
    /\ llm = get_llm_provider(llm_provider)
    /\ store = << >>
    /\ nextId = 0
    /\ run = [r \in Runs |-> IdleRun]
    /\ calls = 0
    /\ ProbeIdle
    /\ HealthIdle
    /\ NoService
    /\ MagicIdle
    /\ GenerationIdle
    /\ AppIdle

NextApi ==
    \/ \E body \in RequestBodies : PostMessage(body)
    \/ \E body \in RequestBodies : StreamMessage(body)
    \/ StreamChunk
    \/ StreamDone
    \/ StreamError
    \/ StreamClose

SpecApi == InitApi /\ [][NextApi]_vars

\* the response keeps asking for frames and the provider keeps answering
SpecApiFair ==
    SpecApi /\ WF_vars(StreamChunk \/ StreamDone \/ StreamError \/ StreamClose)

\* the same routes, asked with the bodies around the length limits
NextApiLimits ==
    \/ \E body \in LimitBodies : PostMessage(body)
    \/ \E body \in LimitBodies : StreamMessage(body)
    \/ StreamChunk
    \/ StreamDone
    \/ StreamError
    \/ StreamClose

SpecApiLimits == InitApi /\ [][NextApiLimits]_vars

(***************************************************************************)
(* GET /health and GET /health/ready: health_check and readiness_check,    *)
(* the latter cut at its await.                                            *)
(***************************************************************************)
NotFoundText == <<"n", "o", "t", " ", "f", "o", "u", "n", "d">>

\* str(e) of the exceptions the check may meet
ProbeErrorTexts ==
    { <<"t", "i", "m", "e", "o", "u", "t">>,
      <<"N", "o", "t", " ", "F", "o", "u", "n", "d">>,
      <<"i", "d", " ", "n", "o", "t", " ", "f", "o", "u", "n", "d">>,
      <<"N", "O", "T", " ", "F", "O", "U", "N", "D", "!">>,
      <<"n", "o", "t", "f", "o", "u", "n", "d">>,
      <<"n", "o", "t", " ", " ", "f", "o", "u", "n", "d">>,
      <<>> }

\* container.get_llm(): a provider, with or without a _client, or an exception
LlmProbeOutcomes ==
    { [ok |-> TRUE, has_client |-> b] : b \in BOOLEAN }
    \cup { [ok |-> FALSE, exc |-> Exc("RuntimeError", m)] :
               m \in { <<"t", "i", "m", "e", "o", "u", "t">>, <<"k", "e", "y", " ", "n", "o", "t", " ", "f", "o", "u", "n", "d">> } }

\* lines 60-62: the lookup of an id nothing is stored under returns None, or
\* acquiring the repository or the lookup raises
RepositoryProbeOutcomes ==
    { [ok |-> TRUE] }
    \cup { [ok |-> FALSE, exc |-> Exc("RepositoryError", m)] : m \in ProbeErrorTexts }

Healthy == [status |-> "healthy"]
Unhealthy(e) == [status |-> "unhealthy", error |-> e.message]

\* lines 43-56: both branches of the _client test report healthy
CheckLlm(outcome) ==
    IF outcome.ok
    THEN (IF outcome.has_client THEN Healthy ELSE Healthy)
    ELSE Unhealthy(outcome.exc)

CheckRepositoryNoExemption(outcome) ==
    IF outcome.ok THEN Healthy ELSE Unhealthy(outcome.exc)
\* lines 59-73: an exception whose text contains "not found" is fine
CheckRepository(outcome) ==
    IF outcome.ok
    THEN Healthy
    ELSE IF Contains(Lower(outcome.exc.message), NotFoundText)
         THEN Healthy
         ELSE Unhealthy(outcome.exc)

\* lines 36-40 and 75-83: the answer for the two component checks
ReadinessResponse(llm_check, repository_check) ==
    LET all_healthy ==
            llm_check.status = "healthy" /\ repository_check.status = "healthy"
        checks == [llm |-> llm_check, repository |-> repository_check]
    IN  IF ~all_healthy
        THEN [status_code |-> 503,
              content |-> [status |-> "not_ready", checks |-> checks]]
        ELSE [status_code |-> 200,
              content |-> [status |-> "ready", checks |-> checks]]

\* GET /health, lines 12-20
HealthCheck ==
    /\ requests < MaxRequests
    /\ requests' = requests + 1
    /\ response' = [route |-> "/health", status_code |-> 200,
                    content |-> [status |-> "ok"]]
    /\ UNCHANGED <<llm_provider, stream>>
    /\ UNCHANGED <<execVars, probe, health, app, services, magic, generation>>

\* GET /health/ready up to "await repository.find_by_id", lines 35-62
ReadinessStart ==
    /\ requests < MaxRequests
    /\ health.pc \in {"idle", "done"}
    /\ \E o \in LlmProbeOutcomes :
          health' = [pc |-> "lookup", llm_outcome |-> o, llm_check |-> CheckLlm(o)]
    /\ UNCHANGED apiVars
    /\ UNCHANGED <<execVars, probe, app, services, magic, generation>>

\* the lookup returns or raises, and the check answers: lines 62-83
ReadinessFinish ==
    /\ health.pc = "lookup"
    /\ requests' = requests + 1
    /\ \E o \in RepositoryProbeOutcomes :
          /\ health' = [pc |-> "done", llm_outcome |-> health.llm_outcome,
                        repository_outcome |-> o]
          /\ response' = [route |-> "/health/ready"]
                             @@ ReadinessResponse(health.llm_check, CheckRepository(o))
    /\ UNCHANGED <<llm_provider, stream>>
    /\ UNCHANGED <<execVars, probe, app, services, magic, generation>>

InitHealth ==
    /\ llm = "MockProvider"
    /\ store = << >>
    /\ nextId = 0
    /\ run = [r \in Runs |-> IdleRun]
    /\ calls = 0
    /\ ApiIdle
    /\ ProbeIdle
    /\ HealthIdle
    /\ NoService
    /\ MagicIdle
    /\ GenerationIdle
    /\ AppIdle

NextHealth ==
    \/ HealthCheck
    \/ ReadinessStart
    \/ ReadinessFinish

SpecHealth == InitHealth /\ [][NextHealth]_vars

(***************************************************************************)
(* Startup: Settings, validate_configuration, startup_event, and           *)
(* get_llm_provider called on the same settings.                           *)
(***************************************************************************)
\* an Optional[str]: <<>> for None, <<text>> for a str
NoStr == <<>>
SomeStr(text) == <<text>>

\* "not value" for an Optional[str]: None and the empty str are false
Falsy(value) == value = NoStr \/ value[1] = <<>>

\* str.startswith(prefix)
StartsWith(text, prefix) ==
    Len(prefix) <= Len(text) /\ SubSeq(text, 1, Len(prefix)) = prefix

OpenAIName == <<"o", "p", "e", "n", "a", "i">>
MockName == <<"m", "o", "c", "k">>
BedrockName == <<"b", "e", "d", "r", "o", "c", "k">>

\* values of LLM_PROVIDER: the three providers, two of them also in another
\* letter case, and a name of no provider
ProviderSettings ==
    { OpenAIName, MockName, BedrockName,
      <<"O", "p", "e", "n", "A", "I">>, <<"M", "O", "C", "K">>, <<"g", "p", "t">> }

\* values of OPENAI_API_KEY: unset, empty, set
ApiKeySettings == { NoStr, SomeStr(<<>>), SomeStr(<<"s", "k", "-", "1">>) }

\* values of DATABASE_URL: unset, a PostgreSQL URL, another URL
DatabaseUrlSettings ==
    { NoStr, SomeStr(<<"p", "o", "s", "t", "g", "r", "e", "s", "q", "l", ":", "/", "/", "d", "b">>), SomeStr(<<"s", "q", "l", "i", "t", "e", ":", "/", "/", "d", "b">>) }

\* settings.py lines 7-33: a Settings instance has its declared fields only
Settings(provider, api_key, database_url) ==
    [llm_provider |-> provider,
     openai_api_key |-> api_key,
     openai_model |-> "gpt-3.5-turbo",
     aws_region |-> "us-east-1",
     bedrock_model_id |-> "anthropic.claude-3-sonnet-20240229-v1:0",
     database_url |-> database_url,
     app_name |-> "AI Platform",
     app_version |-> "1.0.0",
     debug |-> FALSE,
     api_prefix |-> "/api/v1"]

\* attribute access on the settings instance
GetSetting(settings, name) ==
    IF name \in DOMAIN settings
    THEN [ok |-> TRUE, value |-> settings[name]]
    ELSE [ok |-> FALSE,
          exc |-> Exc("AttributeError",
                      <<"'Settings' object has no attribute '", name, "'">>)]

\* validation.py lines 19-32
ProviderErrors(settings) ==
    LET provider == Lower(settings.llm_provider)
    IN  IF provider = OpenAIName
        THEN (IF Falsy(settings.openai_api_key)
              THEN <<"OPENAI_API_KEY is required when LLM_PROVIDER=openai">>
              ELSE <<>>)
        ELSE IF provider \notin {OpenAIName, MockName}
             THEN <<"Invalid LLM_PROVIDER">>
             ELSE <<>>

\* validation.py lines 35-40
DatabaseErrors(settings) ==
    IF ~Falsy(settings.database_url)
       /\ ~StartsWith(settings.database_url[1], <<"p", "o", "s", "t", "g", "r", "e", "s", "q", "l", ":", "/", "/">>)
       /\ ~StartsWith(settings.database_url[1], <<"p", "o", "s", "t", "g", "r", "e", "s", "q", "l", "+", "a", "s", "y", "n", "c", "p", "g", ":", "/", "/">>)
    THEN <<"DATABASE_URL must start with 'postgresql://' or 'postgresql+asyncpg://'">>
    ELSE <<>>

\* validation.py lines 43-68: the attributes read after the database check, in
\* the order they are read
TuningSettings ==
    <<"db_pool_size", "db_max_overflow", "db_pool_timeout", "db_pool_recycle",
      "llm_circuit_breaker_enabled", "llm_failure_cooldown", "rate_limit_enabled">>

\* validation.py lines 43-68 on settings that have all of these attributes
TuningErrors(settings) ==
    (IF settings.db_pool_size < 1
     THEN <<"DB_POOL_SIZE must be at least 1">> ELSE <<>>)
    \o (IF settings.db_max_overflow < 0
        THEN <<"DB_MAX_OVERFLOW must be non-negative">> ELSE <<>>)
    \o (IF settings.db_pool_timeout < 1
        THEN <<"DB_POOL_TIMEOUT must be at least 1 second">> ELSE <<>>)
    \o (IF settings.db_pool_recycle < 1
        THEN <<"DB_POOL_RECYCLE must be at least 1 second">> ELSE <<>>)
    \o (IF settings.llm_failure_cooldown < 0
        THEN <<"LLM_FAILURE_COOLDOWN must be non-negative">> ELSE <<>>)

ConfigurationError(errors) ==
    Exc("ConfigurationError", <<"Configuration validation failed:">> \o errors)

\* validation.py lines 6-75: the errors are collected, and raised at the end;
\* reading an attribute the settings lack raises on the spot
validate_configuration(settings) ==
    LET errors == ProviderErrors(settings) \o DatabaseErrors(settings)
        missing == { k \in 1..Len(TuningSettings) :
                        ~GetSetting(settings, TuningSettings[k]).ok }
    IN  IF missing # {}
        THEN LET first == CHOOSE k \in missing : \A j \in missing : k <= j
             IN  [ok |-> FALSE, exc |-> GetSetting(settings, TuningSettings[first]).exc]
        ELSE IF errors \o TuningErrors(settings) # <<>>
             THEN [ok |-> FALSE,
                   exc |-> ConfigurationError(errors \o TuningErrors(settings))]
             ELSE [ok |-> TRUE]

\* openai_provider.py lines 32-37: the constructor wants an API key
OpenAIProviderInit(api_key) ==
    IF Falsy(api_key)
    THEN [ok |-> FALSE, exc |-> Exc("ValueError", <<"OpenAI API key is required.">>)]
    ELSE [ok |-> TRUE, provider |-> "OpenAIProvider"]

\* the settings' provider name as get_llm_provider tells names apart
ProviderKey(settings) ==
    LET provider_name == Lower(settings.llm_provider)
    IN  IF provider_name = OpenAIName THEN "openai"
        ELSE IF provider_name = BedrockName THEN "bedrock"
        ELSE "other"

\* dependencies.py lines 8-28 on the given settings: the provider, or the
\* exception its constructor raises
GetLlmProvider(settings) ==
    IF get_llm_provider(ProviderKey(settings)) = "OpenAIProvider"
    THEN OpenAIProviderInit(settings.openai_api_key)
    ELSE [ok |-> TRUE, provider |-> get_llm_provider(ProviderKey(settings))]

\* main.py lines 27-35: startup_event runs validate_configuration; an exception
\* leaves the handler, logged first if it is a ConfigurationError, and the
\* process does not come to serve
Startup ==
    /\ app.pc = "starting"
    /\ LET v == validate_configuration(app.settings)
       IN  app' = IF v.ok
                  THEN [app EXCEPT !.pc = "serving"]
                  ELSE [app EXCEPT !.pc = "failed",
                                   !.error = <<v.exc>>,
                                   !.logged = v.exc.type = "ConfigurationError"]
    /\ UNCHANGED <<execVars, apiVars, probe, health, services, magic, generation>>

\* get_llm_provider() is called
ResolveProvider ==
    /\ app.resolved = <<>>
    /\ app' = [app EXCEPT !.resolved = <<GetLlmProvider(app.settings)>>]
    /\ UNCHANGED <<execVars, apiVars, probe, health, services, magic, generation>>

InitStartup ==
    /\ app \in [pc : {"starting"},
                 settings : { Settings(p, k, d) : p \in ProviderSettings,
                                                  k \in ApiKeySettings,
                                                  d \in DatabaseUrlSettings },
                 \* whether the environment holds AWS credentials
                 aws_credentials : BOOLEAN,
                 error : { <<>> }, logged : {FALSE}, resolved : { <<>> }]
    /\ llm = "MockProvider"
    /\ store = << >>
    /\ nextId = 0
    /\ run = [r \in Runs |-> IdleRun]
    /\ calls = 0
    /\ ApiIdle
    /\ ProbeIdle
    /\ HealthIdle
    /\ NoService
    /\ MagicIdle
    /\ GenerationIdle

NextStartup ==
    \/ Startup
    \/ ResolveProvider

SpecStartup == InitStartup /\ [][NextStartup]_vars

(***************************************************************************)
(* POST /auth/magic-link: request_magic_link and KeycloakAdminClient        *)
(* (api/routes/magic_link.py).                                              *)
(***************************************************************************)
\* addresses that pass EmailStr
Emails == { "user@example.com", "new@example.com", "admin@example.com" }

\* settings = Settings() with nothing set in the environment
DefaultSettings == Settings(MockName, NoStr, NoStr)

\* what a call returns or raises
Returned(value) == [ok |-> TRUE, value |-> value]
Raised(exc) == [ok |-> FALSE, exc |-> exc]

\* raise HTTPException(status_code=..., detail=...)
RaiseHTTPException(status_code, detail) ==
    Raised([type |-> "HTTPException", message |-> detail, status_code |-> status_code])

\* httpx failing to reach Keycloak
TransportError ==
    [raised |-> TRUE, exc |-> Exc("ConnectError", "All connection attempts failed")]

\* Keycloak's answers to the token request: granted, refused, unreachable
TokenAnswers ==
    { [raised |-> FALSE, status_code |-> 200, access_token |-> "admin-token"],
      [raised |-> FALSE, status_code |-> 401, access_token |-> None],
      TransportError }

\* to the query of users by email: the account exists, it does not, the query
\* is refused, unreachable
LookupAnswers ==
    { [raised |-> FALSE, status_code |-> 200, users |-> <<"u1">>],
      [raised |-> FALSE, status_code |-> 200, users |-> <<>>],
      [raised |-> FALSE, status_code |-> 500, users |-> <<>>],
      TransportError }

\* to the creation of a user: created with or without a Location header,
\* already there, refused
CreateAnswers ==
    { [raised |-> FALSE, status_code |-> 201, location |-> <<"u2">>],
      [raised |-> FALSE, status_code |-> 201, location |-> <<>>],
      [raised |-> FALSE, status_code |-> 409, location |-> <<>>],
      [raised |-> FALSE, status_code |-> 500, location |-> <<>>] }

\* to the second query of users, made when no Location came back
RefetchAnswers ==
    { [raised |-> FALSE, status_code |-> 200, users |-> <<"u2">>],
      [raised |-> FALSE, status_code |-> 200, users |-> <<>>],
      TransportError }

\* to execute-actions-email: sent, refused, unreachable
SendAnswers ==
    { [raised |-> FALSE, status_code |-> 204],
      [raised |-> FALSE, status_code |-> 500],
      TransportError }

\* what Keycloak would answer to each call of one request
KeycloakAnswers ==
    [token : TokenAnswers, lookup : LookupAnswers, create : CreateAnswers,
     refetch : RefetchAnswers, send : SendAnswers]

KeycloakAdminClientConfigured(settings) ==
    Returned([keycloak_url |-> "http://keycloak:8080", realm |-> "master"])
\* lines 68-73: KeycloakAdminClient.__init__ reads two settings
KeycloakAdminClient(settings) ==
    LET keycloak_url == GetSetting(settings, "keycloak_url")
        realm == GetSetting(settings, "keycloak_realm")
    IN  IF ~keycloak_url.ok THEN Raised(keycloak_url.exc)
        ELSE IF ~realm.ok THEN Raised(realm.exc)
        ELSE Returned([keycloak_url |-> keycloak_url.value, realm |-> realm.value])

\* lines 75-104
get_admin_token(answer) ==
    IF answer.raised THEN Raised(answer.exc)
    ELSE IF answer.status_code # 200
    THEN RaiseHTTPException(503, "Authentication service unavailable")
    ELSE Returned(answer.access_token)

\* lines 106-180
get_or_create_user(keycloak) ==
    IF keycloak.lookup.raised THEN Raised(keycloak.lookup.exc)
    ELSE IF keycloak.lookup.status_code # 200
    THEN RaiseHTTPException(503, "Authentication service unavailable")
    ELSE IF keycloak.lookup.users # <<>>
    THEN Returned(keycloak.lookup.users[1])
    ELSE IF keycloak.create.status_code \notin {201, 409}
    THEN RaiseHTTPException(503, "Failed to create user account")
    ELSE IF keycloak.create.location # <<>>
    THEN Returned(keycloak.create.location[1])
    ELSE IF keycloak.refetch.raised THEN Raised(keycloak.refetch.exc)
    ELSE IF keycloak.refetch.users = <<>>
    THEN Raised(Exc("IndexError", "list index out of range"))
    ELSE Returned(keycloak.refetch.users[1])

\* the Keycloak calls get_or_create_user makes
UserCalls(keycloak) ==
    IF keycloak.lookup.raised \/ keycloak.lookup.status_code # 200
       \/ keycloak.lookup.users # <<>>
    THEN <<"lookup">>
    ELSE IF keycloak.create.status_code \notin {201, 409}
            \/ keycloak.create.location # <<>>
    THEN <<"lookup", "create">>
    ELSE <<"lookup", "create", "refetch">>

\* lines 182-223: the arguments of client.put are evaluated before the call
send_magic_link(settings, answer) ==
    LET api_prefix == GetSetting(settings, "api_prefix")
        client_id == GetSetting(settings, "keycloak_client_id")
    IN  IF ~api_prefix.ok THEN Raised(api_prefix.exc)
        ELSE IF ~client_id.ok THEN Raised(client_id.exc)
        ELSE IF answer.raised THEN Raised(answer.exc)
        ELSE IF answer.status_code \notin {200, 204}
        THEN RaiseHTTPException(503, "Failed to send magic link email")
        ELSE Returned(None)

SendCalls(settings) ==
    IF GetSetting(settings, "api_prefix").ok
       /\ GetSetting(settings, "keycloak_client_id").ok
    THEN <<"send">> ELSE <<>>

MagicLinkMessage == "If an account exists, a magic link has been sent to your email"

\* lines 44-54
MagicLinkResponse(message, email, success) ==
    [message |-> message, email |-> email, success |-> success]

\* lines 271-289: the try block, with the Keycloak calls it got to make
MagicLinkAttempt(settings, email, keycloak) ==
    LET keycloak_client == KeycloakAdminClient(settings)
        admin_token == get_admin_token(keycloak.token)
        user_id == get_or_create_user(keycloak)
        sent == send_magic_link(settings, keycloak.send)
    IN  IF ~keycloak_client.ok
        THEN [outcome |-> keycloak_client, keycloak_calls |-> <<>>]
        ELSE IF ~admin_token.ok
        THEN [outcome |-> admin_token, keycloak_calls |-> <<"token">>]
        ELSE IF ~user_id.ok
        THEN [outcome |-> user_id,
              keycloak_calls |-> <<"token">> \o UserCalls(keycloak)]
        ELSE [outcome |-> IF sent.ok
                          THEN Returned(MagicLinkResponse(MagicLinkMessage, email, TRUE))
                          ELSE sent,
              keycloak_calls |->
                  <<"token">> \o UserCalls(keycloak) \o SendCalls(settings)]

\* lines 295-304: except Exception logs the error and answers as on success
ExceptException(email, exc) ==
    [status_code |-> 200,
     content |-> MagicLinkResponse(MagicLinkMessage, email, TRUE),
     logged |-> <<exc.message>>]

\* lines 271-304, and the framework's answer to an HTTPException
request_magic_link(settings, email, keycloak) ==
    LET attempt == MagicLinkAttempt(settings, email, keycloak)
    IN  [keycloak_calls |-> attempt.keycloak_calls]
        @@ IF attempt.outcome.ok
           THEN [status_code |-> 200, content |-> attempt.outcome.value,
                 logged |-> <<>>]
           ELSE IF attempt.outcome.exc.type = "HTTPException"
           THEN [status_code |-> attempt.outcome.exc.status_code,
                 content |-> [detail |-> attempt.outcome.exc.message],
                 logged |-> <<>>]
           ELSE ExceptException(email, attempt.outcome.exc)

\* POST /auth/magic-link with a valid address; Keycloak's disposition during
\* the request is kept with the answer
RequestMagicLink(email, keycloak) ==
    /\ magic' = [pc |-> "answered", email |-> email, keycloak |-> keycloak]
                    @@ request_magic_link(DefaultSettings, email, keycloak)
    /\ UNCHANGED <<execVars, apiVars, probe, health, app, services, generation>>

InitMagic ==
    /\ llm = "MockProvider"
    /\ store = << >>
    /\ nextId = 0
    /\ run = [r \in Runs |-> IdleRun]
    /\ calls = 0
    /\ ApiIdle
    /\ ProbeIdle
    /\ HealthIdle
    /\ AppIdle
    /\ NoService
    /\ MagicIdle
    /\ GenerationIdle

NextMagic == \E email \in Emails, keycloak \in KeycloakAnswers :
                 RequestMagicLink(email, keycloak)

SpecMagic == InitMagic /\ [][NextMagic]_vars

(***************************************************************************)
(* OpenAIProvider and BedrockProvider: generate and generate_stream, cut   *)
(* at the SDK calls and at the yields (infrastructure/llm).                *)
(***************************************************************************)
\* values of settings.openai_model
OpenAIModels == { "gpt-5-nano", "gpt-5-mini", "gpt-3.5-turbo" }

\* model.startswith("gpt-5"), over OpenAIModels
StartsWithGpt5(model) == model \in { "gpt-5-nano", "gpt-5-mini" }

\* errors the SDK raises from a call or while a stream is read
SdkErrors ==
    { Exc("APIConnectionError", <<"Connection error.">>),
      Exc("RateLimitError", <<"Rate limit reached">>) }

\* str(e)
Str(e) == e.message

\* full texts a model returns, each an Optional[str]: nothing, the empty
\* text, a text of one whole chunk, a text of two chunks and a rest
Completions ==
    { NoStr, SomeStr(<<>>),
      SomeStr(<<"H", "e", "l", "l", "o">>),
      SomeStr(<<"H", "e", "l", "l", "o", ",", " ", "w", "o", "r", "l", "d">>) }

\* value or ""
OrEmpty(value) == IF value = NoStr THEN <<>> ELSE value[1]

\* what an awaited SDK call does: it returns a text or raises
SdkAnswers ==
    { [ok |-> TRUE, text |-> t, exc |-> Exc("None", <<>>)] : t \in Completions }
    \cup { [ok |-> FALSE, text |-> NoStr, exc |-> e] : e \in SdkErrors }

\* events of client.responses.stream: text deltas, one of them empty, and an
\* event of another type
StreamEvents ==
    { [type |-> "response.output_text.delta", delta |-> <<"H", "i">>],
      [type |-> "response.output_text.delta", delta |-> <<>>],
      [type |-> "response.created", delta |-> <<>>] }

\* delta.content of the chunks of a chat.completions stream
ChatDeltas == { NoStr, SomeStr(<<>>), SomeStr(<<"H", "i">>) }

\* a provider call as it starts
ProviderCall(provider, method, model) ==
    [pc |-> "called", provider |-> provider, method |-> method, model |-> model,
     \* the text being replayed in chunks, its tier, position and chunk size
     tier |-> "primary", text |-> <<>>, i |-> 0, chunk_size |-> 0,
     events |-> 0, chunks_yielded |-> 0,
     \* the chunks yielded to the caller, each with the tier it came from
     emitted |-> <<>>,
     \* the SDK calls made, in order, and the errors the SDK raised
     sdk_calls |-> <<>>, sdk_errors |-> <<>>,
     \* the full texts the fallback calls returned, in order
     full_texts |-> <<>>,
     \* the locals bound by the except clauses, <<>> while unbound
     primary_error |-> <<>>, fallback_error |-> <<>>, legacy_error |-> <<>>,
     \* what the caller gets in the end: a text (generate) or an exception
     result |-> <<>>, error |-> <<>>]

SdkCall(api, model) == [api |-> api, model |-> model]

\* the call ends by raising e to the caller
Raise(g, e) == [g EXCEPT !.pc = "raised", !.error = <<e>>]

\* the yield loop over text[i:i + chunk_size] is entered
Replay(g, tier, text, size) ==
    [g EXCEPT !.pc = "replay", !.tier = tier, !.text = text, !.i = 0,
              !.chunk_size = size]

\* reading a local variable that no statement has bound yet
UnboundLocalErrors(name) ==
    { Exc("UnboundLocalError",
          <<"cannot access local variable '", name,
            "' where it is not associated with a value">>),
      Exc("UnboundLocalError",
          <<"local variable '", name, "' referenced before assignment">>) }

\* line 183
FallbackModel(primary_model) ==
    IF primary_model = "gpt-5-nano" THEN <<"gpt-5-mini">> ELSE <<>>

\* lines 317-320
BothFailed(primary_model, fallback_model, primary_error, fallback_error) ==
    Exc("RuntimeError",
        <<"Both ", primary_model, " and ", fallback_model,
          " failed. Primary error: ">> \o Str(primary_error)
        \o <<", Fallback error: ">> \o Str(fallback_error))

\* lines 309-312
AllModelsFailed(primary_error, fallback_error, legacy_error) ==
    Exc("RuntimeError",
        <<"All models failed. Primary: ">> \o Str(primary_error)
        \o <<", Fallback: ">> \o Str(fallback_error)
        \o <<", Legacy: ">> \o Str(legacy_error))

\* openai_provider.py lines 265 and 296
fallback_chunk_size == 5
\* bedrock_provider.py line 138
bedrock_chunk_size == 10

\* lines 221-227 and 321-323: the primary stream has failed with e.  Without
\* a fallback model the bare raise re-raises e as it is; with one,
\* client.responses.create is awaited for it
OnPrimaryError(g, e) ==
    LET fallback_model == FallbackModel(g.model)
    IN  IF fallback_model = <<>>
        THEN Raise([g EXCEPT !.primary_error = <<e>>], e)
        ELSE [g EXCEPT !.pc = "secondary",
                       !.primary_error = <<e>>,
                       !.sdk_calls = Append(@, SdkCall("responses.create",
                                                       fallback_model[1]))]

\* lines 313-320: except Exception as fallback_error, around the whole of the
\* secondary and the legacy tier
ExceptFallbackError(g, e) ==
    Raise([g EXCEPT !.fallback_error = <<e>>],
          BothFailed(g.model, FallbackModel(g.model)[1], g.primary_error[1], e))

\* lines 307-312: except Exception as legacy_error.  The message is built
\* first, and it reads fallback_error; a failure to build it is raised from
\* inside the try block of the secondary tier
ExceptLegacyError(g, e, unbound) ==
    LET h == [g EXCEPT !.legacy_error = <<e>>]
    IN  IF h.fallback_error = <<>>
        THEN ExceptFallbackError(h, unbound)
        ELSE ExceptFallbackError(
                 h, AllModelsFailed(h.primary_error[1], h.fallback_error[1], e))

\* lines 229-263 and 274-279, once client.responses.create has answered
OnSecondaryAnswerSkippingLegacy(g, answer) ==
    IF ~answer.ok
    THEN ExceptFallbackError([g EXCEPT !.sdk_errors = Append(@, answer.exc)],
                             answer.exc)
    ELSE Replay([g EXCEPT !.full_texts = Append(@, OrEmpty(answer.text))],
                "secondary", OrEmpty(answer.text), fallback_chunk_size)
OnSecondaryAnswer(g, answer) ==
    IF ~answer.ok
    THEN ExceptFallbackError([g EXCEPT !.sdk_errors = Append(@, answer.exc)],
                             answer.exc)
    ELSE IF OrEmpty(answer.text) # <<>>
    THEN Replay([g EXCEPT !.full_texts = Append(@, OrEmpty(answer.text))],
                "secondary", OrEmpty(answer.text), fallback_chunk_size)
    ELSE [g EXCEPT !.pc = "legacy",
                   !.full_texts = Append(@, OrEmpty(answer.text)),
                   !.sdk_calls = Append(@, SdkCall("chat.completions.create",
                                                   "gpt-3.5-turbo"))]

\* lines 281-306, once client.chat.completions.create has answered
OnLegacyAnswer(g, answer, unbound) ==
    IF ~answer.ok
    THEN ExceptLegacyError([g EXCEPT !.sdk_errors = Append(@, answer.exc)],
                           answer.exc, unbound)
    ELSE IF OrEmpty(answer.text) # <<>>
    THEN Replay([g EXCEPT !.full_texts = Append(@, OrEmpty(answer.text))],
                "legacy", OrEmpty(answer.text), fallback_chunk_size)
    ELSE ExceptLegacyError(
             [g EXCEPT !.full_texts = Append(@, OrEmpty(answer.text))],
             Exc("RuntimeError", <<"Legacy model also returned empty response">>),
             unbound)

\* every variable but generation
restVars ==
    <<execVars, apiVars, probe, health, app, services, magic>>

\* provider.generate_stream(message) is called and runs to its first await:
\* lines 174-203 for a gpt-5 model, lines 328-338 for the others
OpenAIStreamStart(model) ==
    /\ generation.pc = "idle"
    /\ generation' =
           LET g == ProviderCall("OpenAIProvider", "generate_stream", model)
           IN  IF StartsWithGpt5(model)
               THEN [g EXCEPT !.pc = "primary",
                              !.sdk_calls = <<SdkCall("responses.stream", model)>>]
               ELSE [g EXCEPT !.pc = "streaming",
                              !.sdk_calls =
                                  <<SdkCall("chat.completions.create", model)>>]
    /\ UNCHANGED restVars

\* lines 204-208: an event of the primary stream
PrimaryEvent(event) ==
    /\ generation.pc = "primary"
    /\ generation.events < MaxChunks
    /\ generation' =
           IF event.type = "response.output_text.delta" /\ event.delta # <<>>
           THEN [generation EXCEPT
                    !.events = @ + 1,
                    !.chunks_yielded = @ + 1,
                    !.emitted = Append(@, [tier |-> "primary", chunk |-> event.delta])]
           ELSE [generation EXCEPT !.events = @ + 1]
    /\ UNCHANGED restVars

\* lines 210-219: the primary stream is exhausted
PrimaryEnd ==
    /\ generation.pc = "primary"
    /\ generation' =
           IF generation.chunks_yielded = 0
           THEN OnPrimaryError(generation,
                               Exc("RuntimeError",
                                   <<"No chunks received from ", generation.model>>))
           ELSE [generation EXCEPT !.pc = "returned"]
    /\ UNCHANGED restVars

\* the SDK raises while the primary stream is opened or read
PrimaryRaise(e) ==
    /\ generation.pc = "primary"
    /\ generation' =
           OnPrimaryError([generation EXCEPT !.sdk_errors = Append(@, e)], e)
    /\ UNCHANGED restVars

\* await client.responses.create(model=fallback_model, ...) answers
SecondaryAnswer(answer) ==
    /\ generation.pc = "secondary"
    /\ generation' = OnSecondaryAnswer(generation, answer)
    /\ UNCHANGED restVars

\* await client.chat.completions.create(model="gpt-3.5-turbo", ...) answers
LegacyAnswer(answer) ==
    /\ generation.pc = "legacy"
    /\ \E unbound \in UnboundLocalErrors("fallback_error") :
           generation' = OnLegacyAnswer(generation, answer, unbound)
    /\ UNCHANGED restVars

\* lines 266-268, 297-299 and bedrock_provider.py lines 139-141: one turn of
\* the loop over range(0, len(text), chunk_size)
ReplayYield ==
    /\ generation.pc = "replay"
    /\ generation.i < Len(generation.text)
    /\ generation' =
           [generation EXCEPT
               !.i = @ + generation.chunk_size,
               !.emitted =
                   Append(@, [tier |-> generation.tier,
                              chunk |-> Slice(generation.text, generation.i,
                                              generation.i + generation.chunk_size)])]
    /\ UNCHANGED restVars

\* the loop is over and the generator returns
ReplayEnd ==
    /\ generation.pc = "replay"
    /\ generation.i >= Len(generation.text)
    /\ generation' = [generation EXCEPT !.pc = "returned"]
    /\ UNCHANGED restVars

\* lines 340-347: a chunk of the chat.completions stream
ChatStreamChunk(content) ==
    /\ generation.pc = "streaming"
    /\ generation.events < MaxChunks
    /\ generation' =
           IF OrEmpty(content) # <<>>
           THEN [generation EXCEPT
                    !.events = @ + 1,
                    !.chunks_yielded = @ + 1,
                    !.emitted = Append(@, [tier |-> "primary",
                                           chunk |-> OrEmpty(content)])]
           ELSE [generation EXCEPT !.events = @ + 1]
    /\ UNCHANGED restVars

\* the chat.completions stream is exhausted
ChatStreamEnd ==
    /\ generation.pc = "streaming"
    /\ generation' = [generation EXCEPT !.pc = "returned"]
    /\ UNCHANGED restVars

\* lines 348-349: the SDK raises from the call or while the stream is read
ChatStreamRaise(e) ==
    /\ generation.pc = "streaming"
    /\ generation' =
           Raise([generation EXCEPT !.sdk_errors = Append(@, e)],
                 Exc("RuntimeError", <<"OpenAI API streaming error: ">> \o Str(e)))
    /\ UNCHANGED restVars

\* OpenAIProvider.generate, lines 104-157: one SDK call, its text or ""
\* returned, its error wrapped
OpenAIGenerate(model, answer) ==
    /\ generation.pc = "idle"
    /\ generation' =
           LET g == [ProviderCall("OpenAIProvider", "generate", model) EXCEPT
                        !.sdk_calls =
                            <<SdkCall(IF StartsWithGpt5(model)
                                      THEN "responses.create"
                                      ELSE "chat.completions.create", model)>>]
           IN  IF answer.ok
               THEN [g EXCEPT !.pc = "returned", !.result = <<OrEmpty(answer.text)>>]
               ELSE Raise([g EXCEPT !.sdk_errors = <<answer.exc>>],
                          Exc("RuntimeError",
                              <<"OpenAI API error: ">> \o Str(answer.exc)))
    /\ UNCHANGED restVars

\* values of settings.bedrock_model_id
BedrockModels == { "anthropic.claude-3-sonnet-20240229-v1:0", "amazon.titan-text-express-v1" }

\* BedrockProvider.generate, lines 69-114, as generate_stream and the callers
\* use it: client.invoke_model answers with a text or raises
bedrock_generate(model_id, answer) ==
    LET g == [ProviderCall("BedrockProvider", "generate", model_id) EXCEPT
                 !.sdk_calls = <<SdkCall("invoke_model", model_id)>>]
    IN  IF answer.ok /\ answer.text # NoStr
        THEN [g EXCEPT !.pc = "returned", !.result = <<answer.text[1]>>]
        ELSE IF answer.ok
        \* the response body lacks the text the model family's path leads to
        THEN Raise(g, Exc("RuntimeError", <<"AWS Bedrock API error: ", "'content'">>))
        ELSE Raise([g EXCEPT !.sdk_errors = <<answer.exc>>],
                   Exc("RuntimeError",
                       <<"AWS Bedrock API error: ">> \o Str(answer.exc)))

BedrockGenerate(model_id, answer) ==
    /\ generation.pc = "idle"
    /\ generation' = bedrock_generate(model_id, answer)
    /\ UNCHANGED restVars

\* BedrockProvider.generate_stream, lines 135-141: generate in full, then the
\* loop over its text
BedrockStreamStart(model_id, answer) ==
    /\ generation.pc = "idle"
    /\ generation' =
           LET g == [bedrock_generate(model_id, answer) EXCEPT
                        !.method = "generate_stream"]
           IN  IF g.pc = "raised"
               THEN g
               ELSE Replay([g EXCEPT !.result = <<>>], "primary", g.result[1],
                           bedrock_chunk_size)
    /\ UNCHANGED restVars

InitProviders ==
    /\ llm = "MockProvider"
    /\ store = << >>
    /\ nextId = 0
    /\ run = [r \in Runs |-> IdleRun]
    /\ calls = 0
    /\ ApiIdle
    /\ ProbeIdle
    /\ HealthIdle
    /\ AppIdle
    /\ NoService
    /\ MagicIdle
    /\ GenerationIdle

NextProviders ==
    \/ \E model \in OpenAIModels : OpenAIStreamStart(model)
    \/ \E event \in StreamEvents : PrimaryEvent(event)
    \/ PrimaryEnd
    \/ \E e \in SdkErrors : PrimaryRaise(e)
    \/ \E answer \in SdkAnswers : SecondaryAnswer(answer)
    \/ \E answer \in SdkAnswers : LegacyAnswer(answer)
    \/ ReplayYield
    \/ ReplayEnd
    \/ \E content \in ChatDeltas : ChatStreamChunk(content)
    \/ ChatStreamEnd
    \/ \E e \in SdkErrors : ChatStreamRaise(e)
    \/ \E model \in OpenAIModels, answer \in SdkAnswers : OpenAIGenerate(model, answer)
    \/ \E model_id \in BedrockModels, answer \in SdkAnswers :
           BedrockGenerate(model_id, answer)
    \/ \E model_id \in BedrockModels, answer \in SdkAnswers :
           BedrockStreamStart(model_id, answer)

SpecProviders == InitProviders /\ [][NextProviders]_vars

(***************************************************************************)
(* MockProvider.generate on its own: any message, called repeatedly.       *)
(***************************************************************************)
Alphabet == { "a", "B", " " }

\* every text over Alphabet of at most n characters
RECURSIVE TextsUpTo(_)
TextsUpTo(n) ==
    IF n = 0
    THEN { <<>> }
    ELSE TextsUpTo(n - 1)
         \cup { Append(t, c) : t \in { u \in TextsUpTo(n - 1) : Len(u) = n - 1 },
                               c \in Alphabet }

\* await MockProvider().generate(probe.message)
MockGenerateCall ==
    /\ Len(probe.results) < 2
    /\ probe' = [probe EXCEPT !.results = Append(@, MockGenerate(probe.message))]
    /\ UNCHANGED <<execVars, apiVars, health, app, services, magic, generation>>

InitMock ==
    /\ probe \in [message : TextsUpTo(MaxLen), results : { <<>> }]
    /\ llm = "MockProvider"
    /\ store = << >>
    /\ nextId = 0
    /\ run = [r \in Runs |-> IdleRun]
    /\ calls = 0
    /\ ApiIdle
    /\ HealthIdle
    /\ NoService
    /\ MagicIdle
    /\ GenerationIdle
    /\ AppIdle

NextMock == MockGenerateCall

SpecMock == InitMock /\ [][NextMock]_vars

(***************************************************************************)
(* Properties of ProcessMessageUseCase.execute (specification Spec).       *)
(***************************************************************************)
\* run r takes its save step and returns
Saves(r) == run[r].pc = "save" /\ run'[r].pc = "done"

\* C2: execute on a conversation_id the repository holds returns that id, and
\* the conversation it stores is the one it loaded with exactly two messages
\* appended: the user message with the given content, then the assistant
\* message with the provider's output.
C2_ExistingConversationGrowsByTwo ==
    [][\A r \in Runs :
          (Saves(r) /\ Given(run[r].conversation_id)) =>
              /\ run'[r].result.conversation_id = run[r].conversation_id
              /\ run[r].conversation_id \in DOMAIN store'
              /\ store'[run[r].conversation_id] =
                    [run[r].loaded[1] EXCEPT !.messages =
                        @ \o << [content |-> run[r].message_content, role |-> "user"],
                                [content |-> run[r].response_content,
                                 role |-> "assistant"] >>]
      ]_vars

C2_Witness ==
    \E r \in Runs :
        /\ run[r].pc = "done"
        /\ Given(run[r].conversation_id)
        /\ run[r].result.conversation_id = run[r].conversation_id
        /\ Len(run[r].loaded[1].messages) = 2
        /\ Len(store[run[r].conversation_id].messages) = 4

\* C3: execute without a conversation_id returns an id that is non-empty, that
\* the repository assigned in this save (it keyed nothing before and keys the
\* saved conversation after), and that no other such call has returned.
C3_NewConversationGetsFreshId ==
    [][\A r \in Runs :
          (Saves(r) /\ ~Given(run[r].conversation_id)) =>
              LET id == run'[r].result.conversation_id
              IN  /\ id # None /\ id # EmptyStr
                  /\ id \notin DOMAIN store
                  /\ id \in DOMAIN store'
                  /\ store'[id].id = id
                  /\ \A q \in Runs \ {r} :
                        (run[q].pc = "done" /\ ~Given(run[q].conversation_id))
                            => run[q].result.conversation_id # id
      ]_vars

C3_Witness ==
    \E r, q \in Runs :
        /\ r # q
        /\ run[r].pc = "done" /\ run[q].pc = "done"
        /\ run[r].conversation_id = None /\ run[q].conversation_id = EmptyStr
        /\ run[r].result.conversation_id # run[q].result.conversation_id
        /\ {run[r].result.conversation_id, run[q].result.conversation_id}
               \subseteq DOMAIN store

\* C4: execute with a conversation_id the repository does not hold fails with
\* a RepositoryError classified as not found; that run calls neither the
\* provider nor repository.save, and the repository is left as it was.
C4_UnknownConversationFails ==
    [][\A r \in Runs :
          /\ ( /\ run[r].pc = "idle" /\ run'[r].pc # "idle"
               /\ Given(run'[r].conversation_id)
               /\ run'[r].conversation_id \notin DOMAIN store )
             => /\ run'[r].pc = "failed"
                /\ run'[r].error.type = "RepositoryError"
                /\ IsNotFound(run'[r].error)
                /\ run'[r].generate_args = <<>>
                /\ run'[r].save_calls = 0
                /\ store' = store
          /\ (run[r].pc = "failed" /\ IsNotFound(run[r].error))
             => /\ run'[r] = run[r]
                /\ run[r].generate_args = <<>>
                /\ run[r].save_calls = 0
      ]_vars

C4_Witness ==
    \E r \in Runs :
        /\ run[r].pc = "failed"
        /\ run[r].conversation_id = UnknownId
        /\ IsNotFound(run[r].error)
        /\ run[r].find_calls = 1
        /\ DOMAIN store # {}
        /\ UnknownId \notin DOMAIN store

\* C5: when the provider's generate fails, execute raises LLMError, that run
\* never calls repository.save, and no step of that run changes the
\* repository: the conversation it loaded is still stored as it was loaded.
C5_LLMFailureNotPersisted ==
    [][\A r \in Runs :
          /\ (run[r].pc = "generate" /\ run'[r].pc = "failed")
             => /\ run'[r].error.type = "LLMError"
                /\ run'[r].save_calls = 0
                /\ store' = store
          /\ (run[r].pc = "idle" /\ run'[r].pc = "generate") => store' = store
          /\ (run[r].pc = "failed" /\ run[r].error.type = "LLMError")
             => /\ run'[r] = run[r]
                /\ run[r].save_calls = 0
      ]_vars

C5_Witness ==
    \E r \in Runs :
        /\ run[r].pc = "failed"
        /\ run[r].error.type = "LLMError"
        /\ Len(run[r].generate_args) = 1
        /\ Given(run[r].conversation_id)
        /\ run[r].loaded # <<>>
        /\ store[run[r].conversation_id] = run[r].loaded[1]

\* C6: when repository.save fails, execute ends with a RepositoryError.
C6_SaveFailureIsRepositoryError ==
    [][\A r \in Runs :
          (run[r].pc = "save" /\ run'[r].pc = "failed")
              => /\ run'[r].error.type = "RepositoryError"
                 /\ run'[r].save_calls = 1
      ]_vars

C6_Witness ==
    \E r \in Runs :
        /\ run[r].pc = "failed"
        /\ run[r].save_calls = 1
        /\ run[r].error.type = "RepositoryError"

\* C14: a finished execute has returned exactly the four fields
\* conversation_id, response, user_message and assistant_message: response is
\* the text the provider returned, assistant_message equals response,
\* user_message is the message_content passed in, and conversation_id is the
\* id under which the conversation was saved (the caller's id when one was
\* given).
C14_ResultFields ==
    \A r \in Runs :
        run[r].pc = "done" =>
            LET res == run[r].result
            IN  /\ DOMAIN res =
                       {"conversation_id", "response", "user_message", "assistant_message"}
                /\ res.response = run[r].response_content
                /\ llm = "MockProvider" =>
                       res.response =
                           <<"E", "c", "h", "o", ":", " ">> \o run[r].message_content
                /\ llm # "MockProvider" => res.response \in Outputs
                /\ res.assistant_message = res.response
                /\ res.user_message = run[r].message_content
                /\ res.conversation_id \in DOMAIN store
                /\ store[res.conversation_id].id = res.conversation_id
                /\ run[r].conversation_id \notin {None, EmptyStr} =>
                       res.conversation_id = run[r].conversation_id

C14_Witness ==
    /\ llm = "OpenAIProvider"
    /\ run[1].pc = "done"
    /\ run[2].pc = "done"
    /\ run[2].conversation_id = "c1"
    /\ run[2].message_content = <<"y", "o", "!">>
    /\ run[2].result =
           [conversation_id |-> "c1", response |-> <<"o", "k">>,
            user_message |-> <<"y", "o", "!">>, assistant_message |-> <<"o", "k">>]

\* C15: every execute call hands the provider's generate exactly the
\* message_content of that call, once, whether the conversation is new or
\* already holds messages; the mock's answer echoes that text alone.
C15_GenerateGetsRawMessage ==
    \A r \in Runs :
        /\ run[r].pc \in {"idle", "generate"} => run[r].generate_args = <<>>
        /\ run[r].pc \in {"save", "done"} =>
               /\ run[r].generate_args = <<run[r].message_content>>
               /\ llm = "MockProvider" =>
                      run[r].response_content =
                          <<"E", "c", "h", "o", ":", " ">> \o run[r].message_content
        /\ run[r].pc = "failed" =>
               \/ run[r].generate_args = <<>>
               \/ run[r].generate_args = <<run[r].message_content>>

\* the third call, on a conversation that already holds four messages
C15_Witness ==
    /\ run[3].pc = "save"
    /\ Len(run[3].loaded) = 1
    /\ Len(run[3].loaded[1].messages) = 4
    /\ run[3].message_content = <<"h", "i">>
    /\ run[3].generate_args = << <<"h", "i">> >>
    /\ run[1].generate_args = << <<"y", "o", "!">> >>

\* s is an initial part of t
IsPrefix(s, t) == Len(s) <= Len(t) /\ SubSeq(t, 1, Len(s)) = s

\* C16: the message sequence stored for a conversation id only ever grows by
\* appending: in every step, each stored sequence is a prefix of the sequence
\* stored under the same id afterwards.
C16_StoredOnlyAppends ==
    [][\A k \in DOMAIN store :
          /\ k \in DOMAIN store'
          /\ IsPrefix(store[k].messages, store'[k].messages)
      ]_vars

\* C16, amended: no id is dropped, and the sequence stored under an id changes
\* either by appending or, when the saving run had loaded the conversation
\* before another run saved it, by being replaced with an extension of what
\* the saving run loaded.
C16_StoredGrowsUnlessOverlapped ==
    [][\A k \in DOMAIN store :
          /\ k \in DOMAIN store'
          /\ \/ IsPrefix(store[k].messages, store'[k].messages)
             \/ \E r \in Runs :
                   /\ Saves(r)
                   /\ run[r].conversation_id = k
                   /\ run[r].loaded[1].messages # store[k].messages
                   /\ IsPrefix(run[r].loaded[1].messages, store'[k].messages)
                   /\ Len(store'[k].messages) = Len(run[r].loaded[1].messages) + 2
      ]_vars

\* two runs loaded the same two messages of c1 and both saved: the stored
\* sequence holds four messages, the second run's pair in place of the first's
C16_Witness ==
    /\ run[1].pc = "done"
    /\ run[2].pc = "done" /\ run[3].pc = "done"
    /\ run[2].conversation_id = "c1" /\ run[3].conversation_id = "c1"
    /\ Len(run[2].loaded[1].messages) = 2
    /\ run[3].loaded = run[2].loaded
    /\ run[2].message_content # run[3].message_content
    /\ Len(store["c1"].messages) = 4
    /\ store["c1"].messages[3].content \in
           {run[2].message_content, run[3].message_content}

\* C17: an id, once assigned, stays with its conversation: every conversation
\* is stored under its own id, a run that was given an id works on and returns
\* that id, and ids are assigned only by successful calls that were given
\* none, one id each.
C17_IdImmutable ==
    /\ \A k \in DOMAIN store : store[k].id = k
    /\ \A r \in Runs :
          Given(run[r].conversation_id) =>
              /\ run[r].pc \in {"generate", "save"} =>
                     run[r].conversation.id = run[r].conversation_id
              /\ run[r].pc = "done" =>
                     /\ run[r].result.conversation_id = run[r].conversation_id
                     /\ run[r].conversation_id \in DOMAIN store
    /\ Cardinality(DOMAIN store) = nextId
    /\ Cardinality({ r \in Runs :
                       run[r].pc = "done" /\ ~Given(run[r].conversation_id) }) = nextId

\* one call created c1 and two later calls on c1 returned c1: still one id
C17_Witness ==
    /\ run[1].pc = "done" /\ run[2].pc = "done" /\ run[3].pc = "done"
    /\ run[1].conversation_id = None
    /\ run[2].conversation_id = "c1" /\ run[3].conversation_id = "c1"
    /\ run[1].result.conversation_id = "c1"
    /\ run[2].result.conversation_id = "c1"
    /\ run[3].result.conversation_id = "c1"
    /\ DOMAIN store = {"c1"}
    /\ Len(store["c1"].messages) = 6

\* the roles of the last n messages of a conversation
LastRoles(conversation, n) ==
    [k \in 1..n |->
        conversation.messages[Len(conversation.messages) - n + k].role]

\* C22: a run goes through load-or-create, user message, generate, assistant
\* message, save in this order: find_by_id, generate and save are each called
\* at most once, save only after generate has returned a text, and a run that
\* failed at a step has made no call past that step and none twice.
C22_LinearOrder ==
    \A r \in Runs :
        LET finds == run[r].find_calls
            generates == Len(run[r].generate_args)
            saves == run[r].save_calls
        IN  /\ finds <= 1 /\ generates <= 1 /\ saves <= 1
            /\ finds = 1 <=> (run[r].pc # "idle" /\ Given(run[r].conversation_id))
            /\ saves = 1 => (generates = 1 /\ run[r].response_content \in
                                                  { out.text : out \in
                                                      { o \in GenerateOutcomes(llm, run[r].message_content) : o.ok } })
            /\ run[r].pc = "idle" => (generates = 0 /\ saves = 0)
            /\ run[r].pc = "generate" =>
                   /\ generates = 0 /\ saves = 0
                   /\ LastRoles(run[r].conversation, 1) = <<"user">>
            /\ run[r].pc = "save" =>
                   /\ generates = 1 /\ saves = 0
                   /\ LastRoles(run[r].conversation, 2) = <<"user", "assistant">>
            /\ run[r].pc = "done" => (generates = 1 /\ saves = 1)
            /\ run[r].pc = "failed" =>
                   \/ /\ run[r].error.type = "LLMError"
                      /\ generates = 1 /\ saves = 0
                   \/ /\ run[r].error.type = "RepositoryError"
                      /\ \/ finds = 1 /\ generates = 0 /\ saves = 0
                         \/ generates = 1 /\ saves = 1

\* one run returned, one failed in generate, one failed in save
C22_Witness ==
    /\ run[1].pc = "done"
    /\ run[1].find_calls = 0 /\ run[1].save_calls = 1
    /\ run[2].pc = "failed" /\ run[2].error.type = "LLMError"
    /\ run[2].find_calls = 1 /\ Len(run[2].generate_args) = 1
    /\ run[2].save_calls = 0
    /\ run[3].pc = "failed" /\ run[3].error.type = "RepositoryError"
    /\ run[3].find_calls = 1 /\ Len(run[3].generate_args) = 1
    /\ run[3].save_calls = 1

\* the messages run r started from, and the two it appended
Before(r) ==
    IF Given(run[r].conversation_id) THEN run[r].loaded[1].messages ELSE <<>>
Pair(r) ==
    << [content |-> run[r].message_content, role |-> "user"],
       [content |-> run[r].response_content, role |-> "assistant"] >>

\* C23: runs on the same conversation_id may both load before either saves;
\* each save then succeeds without a version check, and the repository holds
\* exactly what one returned run wrote, the messages it loaded followed by its
\* own pair: nothing is merged in from another run, and a run whose messages
\* were overwritten has returned its result without an error.
C23_LastWriteWins ==
    /\ \A k \in DOMAIN store :
          \E x \in Runs :
              /\ run[x].pc = "done"
              /\ run[x].result.conversation_id = k
              /\ store[k].messages = Before(x) \o Pair(x)
    /\ \A r \in Runs :
          run[r].pc = "done" =>
              /\ run[r].error = None
              /\ run[r].result.response = run[r].response_content
    /\ \A r \in Runs :
          run[r].pc = "failed" =>
              run[r].error \in
                  { NotFoundError(run[r].conversation_id),
                    SaveError,
                    Exc("LLMError",
                        <<"Failed to generate LLM response: ", "provider error">>) }

\* runs 2 and 3 both loaded the two messages of c1 and both returned; c1 holds
\* four messages, the pair of one of them only
C23_Witness ==
    /\ run[2].pc = "done" /\ run[3].pc = "done"
    /\ run[2].conversation_id = "c1" /\ run[3].conversation_id = "c1"
    /\ run[2].loaded = run[3].loaded
    /\ Len(run[2].loaded[1].messages) = 2
    /\ run[2].message_content = <<"h", "i">>
    /\ run[3].message_content = <<"y", "o", "!">>
    /\ store["c1"].messages = Before(3) \o Pair(3)
    /\ \A k \in 1..4 : store["c1"].messages[k].content # <<"h", "i">>

\* C29: every stored conversation holds an even number of messages whose
\* roles alternate user, assistant, user, assistant, ..., whatever runs have
\* failed or interleaved on its id.
C29_StoredRolesAlternate ==
    \A k \in DOMAIN store :
        LET messages == store[k].messages
        IN  /\ Len(messages) % 2 = 0
            /\ Len(messages) >= 2
            /\ \A i \in 1..Len(messages) :
                  messages[i].role = IF i % 2 = 1 THEN "user" ELSE "assistant"

\* c1 after two runs that had loaded the same two messages both saved
C29_Witness ==
    /\ \E r, q \in Runs :
          /\ r # q
          /\ run[r].pc = "done" /\ run[q].pc = "done"
          /\ run[r].conversation_id = "c1" /\ run[q].conversation_id = "c1"
          /\ run[r].loaded = run[q].loaded
    /\ Len(store["c1"].messages) = 4
    /\ [i \in 1..4 |-> store["c1"].messages[i].role]
           = <<"user", "assistant", "user", "assistant">>

(***************************************************************************)
(* Properties of the HTTP routes (specifications SpecApi, SpecApiFair).    *)
(***************************************************************************)
\* C1: with the mock provider active, POST /chat/message with the body
\* {"message": "Hello, AI!"} is answered 200 with response "Echo: Hello, AI!",
\* user_message "Hello, AI!", assistant_message "Echo: Hello, AI!" and a
\* non-empty conversation_id.
C1_HelloExample ==
    ( /\ llm_provider = "mock"
      /\ response.route = "/chat/message"
      /\ response.body = [message |-> <<"H", "e", "l", "l", "o", ",", " ", "A", "I", "!">>,
                          conversation_id |-> None, model_id |-> None] )
    => /\ response.status_code = 200
       /\ response.content.response =
              <<"E", "c", "h", "o", ":", " ", "H", "e", "l", "l", "o", ",", " ", "A", "I", "!">>
       /\ response.content.user_message =
              <<"H", "e", "l", "l", "o", ",", " ", "A", "I", "!">>
       /\ response.content.assistant_message = response.content.response
       /\ response.content.conversation_id \notin {None, EmptyStr}

\* C7: the adapter emits one chunk frame per chunk the provider yielded, in
\* order, and then exactly one terminal frame: the done frame if the provider's
\* stream ended, the error frame with the exception's message if it raised;
\* nothing follows the terminal frame.
C7_StreamFrames ==
    stream.pc # "idle" =>
        LET n == Len(stream.yielded)
        IN  /\ Len(stream.frames) >= n
            /\ \A k \in 1..n :
                  /\ stream.frames[k][1] = "data: "
                  /\ DOMAIN stream.frames[k][2] = {"chunk"}
                  /\ stream.frames[k][2].chunk = stream.yielded[k]
                  /\ stream.frames[k][3] = "\n\n"
            /\ stream.pc = "open" => Len(stream.frames) = n
            /\ stream.pc \in {"terminal", "closed"} =>
                  /\ Len(stream.frames) = n + 1
                  /\ stream.frames[n + 1][1] = "data: "
                  /\ stream.frames[n + 1][3] = "\n\n"
                  /\ stream.ending \in {"normal", "raised"}
                  /\ stream.ending = "normal" =>
                        /\ DOMAIN stream.frames[n + 1][2] = {"done"}
                        /\ stream.frames[n + 1][2].done = TRUE
                  /\ stream.ending = "raised" =>
                        /\ DOMAIN stream.frames[n + 1][2] = {"error"}
                        /\ stream.frames[n + 1][2].error = <<"provider error">>

C7_Witness ==
    /\ stream.pc = "closed"
    /\ stream.provider # "MockProvider"
    /\ stream.ending = "raised"
    /\ stream.yielded = << <<"k", "!">>, <<"o">> >>
    /\ Len(stream.frames) = 3
    /\ DOMAIN stream.frames[3][2] = {"error"}

\* the frames of a finished mock stream: ceil(L'/5) chunk frames, one done
\* frame, and the chunk payloads concatenate to "Echo: " + message
MockStreamComplete ==
    (stream.pc \in {"terminal", "closed"} /\ stream.provider = "MockProvider") =>
        LET n == (Len(stream.message) + 6 + 4) \div 5
        IN  /\ Len(stream.frames) = n + 1
            /\ \A k \in 1..n : DOMAIN stream.frames[k][2] = {"chunk"}
            /\ DOMAIN stream.frames[n + 1][2] = {"done"}
            /\ Concat([k \in 1..n |-> stream.frames[k][2].chunk])
                   = <<"E", "c", "h", "o", ":", " ">> \o stream.message

\* C8: streaming a message through the mock provider yields ceil(L'/5) chunk
\* frames, L' the length of "Echo: " + message, then exactly one done frame;
\* the chunk payloads in order concatenate to "Echo: " + message; and every
\* such stream, once opened, reaches its end.
C8_MockStream ==
    /\ []MockStreamComplete
    /\ (stream.pc = "open" /\ stream.provider = "MockProvider")
           ~> (stream.pc = "closed")

C8_Witness ==
    /\ stream.pc = "closed"
    /\ stream.provider = "MockProvider"
    /\ stream.message = HelloAI
    /\ Len(stream.frames) = 5
    /\ stream.frames[4][2].chunk = <<"!">>

\* a text that is empty or made of whitespace only
Blank(text) == \A k \in 1..Len(text) : text[k] \in {" ", "\t", "\n", "\r"}

ForbiddenPatterns ==
    { <<"<", "s", "c", "r", "i", "p", "t">>,
      <<"j", "a", "v", "a", "s", "c", "r", "i", "p", "t", ":">>,
      <<"o", "n", "e", "r", "r", "o", "r", "=">>,
      <<"o", "n", "c", "l", "i", "c", "k", "=">>,
      <<"o", "n", "l", "o", "a", "d", "=">>,
      <<"o", "n", "m", "o", "u", "s", "e", "o", "v", "e", "r", "=">>,
      <<"v", "b", "s", "c", "r", "i", "p", "t", ":">>,
      <<"d", "a", "t", "a", ":", "t", "e", "x", "t", "/", "h", "t", "m", "l">> }

\* two characters that are the same letter in either case, or the same character
SameLetter(a, b) ==
    \/ a = b
    \/ \E k \in 1..26 : {a, b} = {UpperCase[k], LowerCase[k]}

\* the text contains the pattern written in some letter case
ContainsInAnyCase(text, p) ==
    \E i \in 0..(Len(text) - Len(p)) :
        \A j \in 1..Len(p) : SameLetter(text[i + j], p[j])

\* the text contains a forbidden pattern written in some letter case
HasForbidden(text) == \E p \in ForbiddenPatterns : ContainsInAnyCase(text, p)

\* the request messages that contain a forbidden pattern
ForbiddenMessages == { m \in RequestMessages : HasForbidden(m) }

\* C11: a request whose message contains a forbidden pattern, in any letter
\* case, is answered with a validation error (422) and reaches neither the
\* provider nor the streaming adapter; a request whose message contains none,
\* is 1 to 4000 characters long and not blank passes validation: it is not
\* answered 422, and on the streaming route it opens the stream on the
\* stripped message.
C11_ForbiddenPatternsRejected ==
    [][requests' = requests + 1 =>
          LET body == response'.body
          IN  /\ body.message \in ForbiddenMessages =>
                    /\ response'.status_code = 422
                    /\ response'.llm_calls = 0
                    /\ stream' = stream
              /\ ( /\ body.message \notin ForbiddenMessages
                   /\ Len(body.message) \in 1..4000
                   /\ ~Blank(body.message)
                   /\ body.conversation_id # EmptyStr ) =>
                    /\ response'.status_code # 422
                    /\ response'.route = "/chat/message/stream" =>
                          /\ response'.status_code = 200
                          /\ stream'.pc = "open"
                          /\ Strip(body.message) = stream'.message
      ]_vars

C11_Witness ==
    /\ requests = 2
    /\ response.route = "/chat/message/stream"
    /\ response.body.message = <<"o", "n", "L", "o", "a", "d", "=">>
    /\ response.status_code = 422
    /\ response.content.detail[2] = "Message contains potentially malicious content"
    /\ stream.pc = "closed"
    /\ stream.message = <<"o", "n", "l", "o", "a", "d", " ", "=">>

RepositoryOf(service) == service.process_message_use_case.repository

\* C30: get_chat_service constructs a new provider and a new, empty
\* InMemoryRepository on every call, so the ChatService objects constructed for
\* two different POST /chat/message requests never hold the same repository
\* object.
C30_RepositoryPerRequest ==
    /\ \A i \in DOMAIN services :
           /\ RepositoryOf(services[i]).conversations = << >>
           /\ services[i].process_message_use_case.llm = get_llm_provider(llm_provider)
    /\ \A i, j \in DOMAIN services :
           i # j => RepositoryOf(services[i]).id # RepositoryOf(services[j]).id

\* two POST /chat/message requests have been answered, each by its own service
C30_Witness ==
    /\ Len(services) = 2
    /\ response.route = "/chat/message"
    /\ response.status_code = 500

(***************************************************************************)
(* Properties of the readiness check (specification SpecHealth).           *)
(***************************************************************************)
\* the check met an exception that reports "not found", in any letter case
ReportsNotFound(outcome) ==
    /\ ~outcome.ok
    /\ ContainsInAnyCase(outcome.exc.message, <<"n", "o", "t", " ", "f", "o", "u", "n", "d">>)

\* C18: the readiness check answers 503 with status "not_ready" if acquiring
\* the provider raised or the repository lookup raised anything but a
\* not-found error, and 200 with status "ready" otherwise; a lookup that
\* reports not found is listed as healthy.
C18_ReadinessStatus ==
    (response.route = "/health/ready" /\ health.pc = "done") =>
        LET lookup == health.repository_outcome
            unhealthy == \/ ~health.llm_outcome.ok
                         \/ (~lookup.ok /\ ~ReportsNotFound(lookup))
        IN  /\ unhealthy =>
                   /\ response.status_code = 503
                   /\ response.content.status = "not_ready"
            /\ ~unhealthy =>
                   /\ response.status_code = 200
                   /\ response.content.status = "ready"
            /\ ReportsNotFound(lookup) =>
                   response.content.checks.repository = [status |-> "healthy"]

\* the provider could not be acquired and the lookup reported "Not Found":
\* 503, with the repository listed as healthy
C18_Witness ==
    /\ response.route = "/health/ready"
    /\ health.pc = "done"
    /\ ~health.llm_outcome.ok
    /\ health.repository_outcome =
           [ok |-> FALSE, exc |-> Exc("RepositoryError", <<"N", "o", "t", " ", "F", "o", "u", "n", "d">>)]
    /\ response.status_code = 503
    /\ response.content.status = "not_ready"
    /\ response.content.checks.llm.status = "unhealthy"
    /\ response.content.checks.repository.status = "healthy"

(***************************************************************************)
(* Properties of startup and provider selection (specification             *)
(* SpecStartup).                                                           *)
(***************************************************************************)
\* the same text up to letter case
SameText(a, b) ==
    Len(a) = Len(b) /\ \A i \in 1..Len(a) : SameLetter(a[i], b[i])

\* the provider setting names the given provider
Selects(name) == SameText(app.settings.llm_provider, name)

\* the OpenAI API key is set to a non-empty text
HasApiKey ==
    app.settings.openai_api_key # <<>> /\ app.settings.openai_api_key[1] # <<>>

\* an external provider is selected without its credentials, or the provider
\* name is that of no provider
Misconfigured ==
    \/ Selects(<<"o", "p", "e", "n", "a", "i">>) /\ ~HasApiKey
    \/ Selects(<<"b", "e", "d", "r", "o", "c", "k">>) /\ ~app.aws_credentials
    \/ ~\E name \in { <<"m", "o", "c", "k">>, <<"o", "p", "e", "n", "a", "i">>, <<"b", "e", "d", "r", "o", "c", "k">> } :
            Selects(name)

\* C19: with an external provider selected without its credentials, or an
\* invalid provider name, startup ends with validate_configuration raising
\* ConfigurationError, which the startup handler logs and re-raises, so the
\* process does not serve; and a process that serves never meets such an
\* error when a request asks for the provider.
C19_MisconfigurationStopsStartup ==
    /\ (Misconfigured /\ app.pc # "starting") =>
           /\ app.pc = "failed"
           /\ app.error[1].type = "ConfigurationError"
           /\ app.logged
    /\ (app.pc = "serving" /\ app.resolved # <<>>) => app.resolved[1].ok

\* the provider a correctly configured setting names, <<>> if it names none
SelectedProvider ==
    IF Selects(<<"m", "o", "c", "k">>) THEN <<"MockProvider">>
    ELSE IF Selects(<<"o", "p", "e", "n", "a", "i">>) /\ HasApiKey THEN <<"OpenAIProvider">>
    ELSE IF Selects(<<"b", "e", "d", "r", "o", "c", "k">>) /\ app.aws_credentials THEN <<"BedrockProvider">>
    ELSE <<>>

\* C20: mock, openai with its API key and bedrock with its credentials each
\* pass startup validation (no database URL set), and get_llm_provider
\* returns the provider the setting names.
C20_ProvidersSelectable ==
    (SelectedProvider # <<>> /\ app.settings.database_url = <<>>) =>
        /\ app.pc # "starting" => app.pc = "serving"
        /\ app.resolved # <<>> =>
               /\ app.resolved[1].ok
               /\ app.resolved[1].provider = SelectedProvider[1]

(***************************************************************************)
(* Properties of the magic-link endpoint (specification SpecMagic).        *)
(***************************************************************************)
\* Keycloak, had it been asked, would have refused or failed some call
KeycloakWouldFail ==
    \/ magic.keycloak.token.raised
    \/ magic.keycloak.token.status_code # 200
    \/ magic.keycloak.lookup.raised
    \/ magic.keycloak.lookup.status_code # 200
    \/ magic.keycloak.send.raised
    \/ magic.keycloak.send.status_code # 204

StreamOf(models) ==
    /\ generation.pc # "idle"
    /\ generation.provider = "OpenAIProvider"
    /\ generation.method = "generate_stream"
    /\ generation.model \in models

\* the tiers in their order: the SDK calls a run may make for a model
TierCalls(model) ==
    <<SdkCall("responses.stream", model),
      SdkCall("responses.create", "gpt-5-mini"),
      SdkCall("chat.completions.create", "gpt-3.5-turbo")>>

\* the chunks a tier has emitted, in order
ChunksOf(tier) ==
    LET picked == SelectSeq(generation.emitted, LAMBDA c : c.tier = tier)
    IN  [i \in 1..Len(picked) |-> picked[i].chunk]

\* the chunks cut a text into consecutive pieces of the given size, up to a
\* piece that may still be missing at the end (all of them once complete)
CutsUp(chunks, text, size, complete) ==
    /\ \A i \in 1..Len(chunks) :
           chunks[i] = SubSeq(text, (i - 1) * size + 1,
                              IF i * size <= Len(text) THEN i * size ELSE Len(text))
    /\ \A i \in 1..Len(chunks) : chunks[i] # <<>>
    /\ complete => Concat(chunks) = text

\* the statement of C24 for the calls made with one of the given models
TiersInOrder(models) ==
    StreamOf(models) =>
        \* the calls made are the tiers, in their order, without a gap
        /\ generation.sdk_calls =
               SubSeq(TierCalls(generation.model), 1, Len(generation.sdk_calls))
        \* a primary stream over with zero chunks: the secondary model is asked
        /\ (generation.pc # "primary" /\ generation.chunks_yielded = 0) =>
               Len(generation.sdk_calls) >= 2
        \* the secondary model has answered without a text: the legacy model
        \* is asked
        /\ (Len(generation.full_texts) >= 1 /\ generation.full_texts[1] = <<>>) =>
               Len(generation.sdk_calls) = 3
        \* a tier that replays emits its full text cut into chunks of five
        /\ generation.pc \in {"replay", "returned"} /\ generation.tier # "primary" =>
               /\ generation.text = generation.full_texts[Len(generation.full_texts)]
               /\ CutsUp(ChunksOf(generation.tier), generation.text,
                         fallback_chunk_size, generation.pc = "returned")

\* C24 as stated: generate_stream for a gpt-5* primary model tries the tiers
\* in the order primary stream, secondary model, legacy model: a primary stream
\* with zero chunks is followed by the secondary model, a secondary model
\* without text by the legacy model, and a fallback tier replays its full
\* text as consecutive chunks of five whose concatenation is that text.
C24_TiersInOrder == TiersInOrder({ m \in OpenAIModels : StartsWithGpt5(m) })

\* C24 as amended: the same for the primary model gpt-5-nano, the one model
\* with a fallback; for another gpt-5* model only the primary stream is tried,
\* and its failure, zero chunks included, ends the call with that error.
C24_TiersInOrderNano ==
    /\ TiersInOrder({ "gpt-5-nano" })
    /\ StreamOf({ m \in OpenAIModels : StartsWithGpt5(m) } \ { "gpt-5-nano" }) =>
           /\ Len(generation.sdk_calls) = 1
           /\ generation.pc \in {"primary", "returned", "raised"}
           /\ generation.pc = "raised" => generation.error = generation.primary_error
           /\ (generation.pc # "primary" /\ generation.chunks_yielded = 0) =>
                  generation.pc = "raised"

\* gpt-5-nano: the primary stream gave nothing, the secondary model no text,
\* and the legacy model's text of twelve characters came out in three chunks
C24_Witness ==
    /\ StreamOf({ "gpt-5-nano" })
    /\ generation.pc = "returned"
    /\ generation.chunks_yielded = 0
    /\ generation.sdk_calls = TierCalls("gpt-5-nano")
    /\ generation.tier = "legacy"
    /\ Len(generation.text) = 12
    /\ Len(ChunksOf("legacy")) = 3

\* part occurs in message as a run of consecutive pieces
Embeds(message, part) ==
    \E i \in 0..(Len(message) - Len(part)) :
        \A k \in 1..Len(part) : message[i + k] = part[k]

\* C25: a generate_stream call with fallback tiers raises to its caller only
\* after the legacy tier has been attempted: whenever the primary and the
\* secondary tier have failed, by raising or by producing nothing, the legacy
\* model has been asked before the error.
C25_LegacyBeforeFailure ==
    (StreamOf({ "gpt-5-nano" }) /\ generation.pc = "raised") =>
        generation.sdk_calls = TierCalls("gpt-5-nano")

\* C26: when all three tiers of a generate_stream call have failed, the error
\* raised is a RuntimeError whose message embeds the messages of the errors of
\* all three tiers: the primary error, the fallback error where the secondary
\* model raised one, and the legacy error.
C26_AllErrorsEmbedded ==
    (StreamOf({ "gpt-5-nano" }) /\ generation.pc = "raised"
        /\ generation.sdk_calls = TierCalls("gpt-5-nano")) =>
        /\ generation.error[1].type = "RuntimeError"
        /\ Embeds(Str(generation.error[1]), Str(generation.primary_error[1]))
        /\ Embeds(Str(generation.error[1]), Str(generation.legacy_error[1]))

\* C27: a provider call that ends with an error after the SDK raised ends with
\* a RuntimeError whose message carries the message of every error the SDK
\* raised during the call, the raw SDK exception never reaches the caller, and
\* no SDK call is made twice.
C27_SdkFailuresWrapped ==
    generation.pc # "idle" =>
        /\ (generation.pc = "raised" /\ generation.sdk_errors # <<>>) =>
               /\ generation.error[1].type = "RuntimeError"
               /\ \A i \in DOMAIN generation.sdk_errors :
                      Embeds(Str(generation.error[1]), Str(generation.sdk_errors[i]))
        /\ \A i, j \in DOMAIN generation.sdk_calls :
               i # j => generation.sdk_calls[i] # generation.sdk_calls[j]

\* C28: all chunks a generate_stream call emits come from one tier, and a
\* fallback tier emits only when the primary stream has emitted no chunk.
C28_ChunksFromOneTier ==
    StreamOf(OpenAIModels) =>
        /\ \A i, j \in DOMAIN generation.emitted :
               generation.emitted[i].tier = generation.emitted[j].tier
        /\ ChunksOf("secondary") \o ChunksOf("legacy") # <<>> =>
               generation.chunks_yielded = 0

(***************************************************************************)
(* Properties of the mock provider (specification SpecMock).               *)
(***************************************************************************)
\* C9: for every message, MockProvider.generate returns exactly "Echo: "
\* followed by the message, and a second call with the same message returns
\* the same text.
C9_MockEchoes ==
    \A k \in 1..Len(probe.results) :
        /\ Len(probe.results[k]) = Len(probe.message) + 6
        /\ SubSeq(probe.results[k], 1, 6) = <<"E", "c", "h", "o", ":", " ">>
        /\ SubSeq(probe.results[k], 7, Len(probe.results[k])) = probe.message
        /\ probe.results[k] = probe.results[1]

C9_Witness ==
    /\ Len(probe.results) = 2
    /\ probe.message = <<"a", " ", "B", "a">>
    /\ probe.results[2] = <<"E", "c", "h", "o", ":", " ", "a", " ", "B", "a">>

====
